---------------------------- MODULE Spec2Model ----------------------------
(***************************************************************************)
(* Job-shop scheduling heuristics (strassl/jssp-heuristics).               *)
(*                                                                         *)
(* The model covers the instance data type, the disjunctive graph state    *)
(* (IntermediateSolution), the schedule -> orientation bridge, the random  *)
(* schedule generator, the priority dispatchers, the N1 neighbourhood, the *)
(* hill climber, and the searches bounded by the clock: random-restart     *)
(* hill climbing, tabu search and simulated annealing.  Operation ids,     *)
(* jobs and machines are 0-based as in the source; arrays are functions    *)
(* over 0..n-1, vectors are sequences.                                     *)
(***************************************************************************)
EXTENDS Integers, Sequences, FiniteSets, TLC

VARIABLES
  inst,                  \* the Instance (data.rs)
  pc,                    \* position of the running solver
  solver,                \* what runs on the schedule once it is built
  rule,                  \* how the schedule is built: "random" or a priority rule
  ready,                 \* ready list of the constructive loops
  op_start_times,        \* start times being built / the Solution handed on
  machine_next_release,  \* per-machine clock
  job_next_release,      \* per-job clock
  times_scheduled,       \* how often each operation was given a start time
  sol,                   \* the current IntermediateSolution
  swapped,               \* whether apply_swap has produced the current state
  seed,                  \* config.seed: what the generator draws, in order
  rng,                   \* number of draws taken from the seeded generator
  iteration,             \* loop counter of a timed search
  best_solution,         \* best_solution of a timed search
  run,                   \* which of two runs with equal inputs is executing
  first,                 \* what the first of the two runs returned
  orientation,           \* an orientation handed to IntermediateSolution::new
  op_last_swap,          \* tabu search: iteration of the last swap onto each op
  op_push_back_count,    \* tabu search: how often each op was pushed back
  total_push_back_count, \* tabu search: number of swaps since (re-)initialisation
  max_delta,             \* tabu search: largest increase of Cmax by one swap
  local_best,            \* run_sa: best of the pass
  inner_iteration,       \* run_sa: position in the sweep
  accepted_move_costs,   \* run_sa: Cmax values accepted in the sweep
  lowest,                \* history: smallest Cmax of the states current so far
  applied,               \* history: what each iteration of the search did
  trial,                 \* estimate_initial_temperature: trials done
  solution,              \* estimate_initial_temperature: the trial's random state
  chosen_move,           \* estimate_initial_temperature: the move sampled from it
  delta_pushed,          \* estimate_initial_temperature: the delta pushed last
  improving_move_count,  \* estimate_initial_temperature: deltas pushed with d <= 0.0
  worsening_move_count   \* estimate_initial_temperature: the other deltas pushed

(* the locals of the timed searches and the input of a direct construction *)
search == <<seed, rng, iteration, best_solution, run, first, orientation>>

(* the locals of tabu search and simulated annealing, and the history *)
estimate == <<trial, solution, chosen_move, delta_pushed, improving_move_count,
              worsening_move_count>>

locals == <<op_last_swap, op_push_back_count, total_push_back_count, max_delta,
            local_best, inner_iteration, accepted_move_costs, lowest, applied,
            estimate>>

vars == <<inst, pc, solver, rule, ready, op_start_times, machine_next_release,
          job_next_release, times_scheduled, sol, swapped, seed, rng,
          iteration, best_solution, run, first, orientation,
          op_last_swap, op_push_back_count, total_push_back_count, max_delta,
          local_best, inner_iteration, accepted_move_costs, lowest, applied,
          trial, solution, chosen_move, delta_pushed, improving_move_count,
          worsening_move_count>>

(***************************************************************************)
(* Bounds of the model.                                                    *)
(***************************************************************************)
MaxJobs == 3
MaxMachines == 3
MaxOps == 6
MaxDur == 1
MaxBridgeOps == 4
MaxStart == 3
MaxTimedOps == 4
MaxIter == 2
SeedLen == 2
MaxTabuIter == 4

(* global_iteration of simulated annealing is capped at MaxSaIter *)
MaxSaIter == 2
MaxOrientOps == 4
MaxChainJobs == 4
MaxEdges == 3

(* Option<OpId>::None and Option<u32>::None *)
None == -1

Max2(x, y) == IF x >= y THEN x ELSE y

RECURSIVE SeqMax(_, _)
SeqMax(f, S) ==
  IF S = {} THEN 0
  ELSE LET x == CHOOSE y \in S : TRUE
       IN Max2(f[x], SeqMax(f, S \ {x}))

(* The elements of a set of numbers in increasing order: `for op in 0..n`
   visiting the members of S. *)
RECURSIVE AscFrom(_, _)
AscFrom(S, acc) ==
  IF S = {} THEN acc
  ELSE LET x == CHOOSE y \in S : \A z \in S : y <= z
       IN AscFrom(S \ {x}, Append(acc, x))

Ascending(S) == AscFrom(S, <<>>)

(***************************************************************************)
(* data.rs: Instance                                                       *)
(***************************************************************************)
n_ops(i) == i.n_jobs * i.n_machines

op_to_id(i, j, o) == j * i.n_machines + o

op_from_id(i, id) == <<id \div i.n_machines, id % i.n_machines>>

op_ids(i) == 0 .. (n_ops(i) - 1)

JobOf(i, id) == op_from_id(i, id)[1]

(* Every job visits every machine exactly once (square job shop, spec 3). *)
ValidInstance(i) ==
  \A j \in 0 .. (i.n_jobs - 1) :
    \A m \in 0 .. (i.n_machines - 1) :
      \E o \in 0 .. (i.n_machines - 1) : i.machines[op_to_id(i, j, o)] = m

Shapes ==
  {s \in (1 .. MaxJobs) \X (1 .. MaxMachines) : s[1] * s[2] <= MaxOps}

InstancesOf(shapes) ==
  UNION { LET n == s[1] * s[2]
          IN { i \in [n_jobs : {s[1]}, n_machines : {s[2]},
                      durations : [0 .. (n - 1) -> 0 .. MaxDur],
                      machines : [0 .. (n - 1) -> 0 .. (s[2] - 1)]] :
                 ValidInstance(i) }
        : s \in shapes }

(***************************************************************************)
(* solver.rs: precedence edges and the inverted index arrays               *)
(***************************************************************************)
get_precedence_edges(i) ==
  LET w == i.n_machines - 1
  IN [k \in 1 .. (i.n_jobs * w) |->
        LET j == (k - 1) \div w
            o == ((k - 1) % w) + 1
        IN <<op_to_id(i, j, o - 1), op_to_id(i, j, o)>>]

RECURSIVE PreSuccFold(_, _, _)
PreSuccFold(edges, k, acc) ==
  IF k > Len(edges) THEN acc
  ELSE LET v == edges[k][1]
           w == edges[k][2]
       IN IF acc.pre[w] # None \/ acc.succ[v] # None
          THEN [acc EXCEPT !.ok = FALSE]
          ELSE PreSuccFold(edges, k + 1,
                           [acc EXCEPT !.pre[w] = v, !.succ[v] = w])

get_pre_succ_relations(i, edges) ==
  PreSuccFold(edges, 1, [pre |-> [op \in op_ids(i) |-> None],
                         succ |-> [op \in op_ids(i) |-> None],
                         ok |-> TRUE])

End(i, release, x) == IF x = None THEN 0 ELSE release[x] + i.durations[x]

TailOf(tail, x) == IF x = None THEN 0 ELSE tail[x]

(***************************************************************************)
(* solver.rs: head propagation.  st = [release_time, labelled, open].      *)
(***************************************************************************)
ReleaseSeed(i, r) ==
  LET src == {op \in op_ids(i) : r.pre_job[op] = None /\ r.pre_machine[op] = None}
  IN [release_time |-> [op \in op_ids(i) |-> IF op \in src THEN 0 ELSE None],
      labelled |-> [op \in op_ids(i) |-> FALSE],
      open |-> Ascending(src)]

(* successors queued whether or not their other predecessor is labelled *)
ReleaseVisitUngated(i, r, st) ==
  LET node == Head(st.open)
      pre_job_end == End(i, st.release_time, r.pre_job[node])
      pre_machine_end == End(i, st.release_time, r.pre_machine[node])
      release == Max2(pre_job_end, pre_machine_end)
      labelled == [st.labelled EXCEPT ![node] = TRUE]
      sj == r.succ_job[node]
      sm == r.succ_machine[node]
      q1 == IF sj # None THEN Append(Tail(st.open), sj) ELSE Tail(st.open)
      q2 == IF sm # None THEN Append(q1, sm) ELSE q1
  IN [release_time |-> [st.release_time EXCEPT ![node] = release],
      labelled |-> labelled,
      open |-> q2]

ReleaseVisit(i, r, st) ==
  LET node == Head(st.open)
      pre_job_end == End(i, st.release_time, r.pre_job[node])
      pre_machine_end == End(i, st.release_time, r.pre_machine[node])
      release == Max2(pre_job_end, pre_machine_end)
      labelled == [st.labelled EXCEPT ![node] = TRUE]
      sj == r.succ_job[node]
      sm == r.succ_machine[node]
      q1 == IF sj # None /\ (r.pre_machine[sj] = None \/ labelled[r.pre_machine[sj]])
            THEN Append(Tail(st.open), sj) ELSE Tail(st.open)
      q2 == IF sm # None /\ (r.pre_job[sm] = None \/ labelled[r.pre_job[sm]])
            THEN Append(q1, sm) ELSE q1
  IN [release_time |-> [st.release_time EXCEPT ![node] = release],
      labelled |-> labelled,
      open |-> q2]

RECURSIVE ReleaseLoop(_, _, _)
ReleaseLoop(i, r, st) ==
  IF st.open = <<>> THEN st ELSE ReleaseLoop(i, r, ReleaseVisit(i, r, st))

(* The iterations of the while loop in order: the node popped by each and the
   labelled array as it was at that moment. *)
RECURSIVE ReleaseDequeues(_, _, _)
ReleaseDequeues(i, r, st) ==
  IF st.open = <<>> THEN <<>>
  ELSE <<[node |-> Head(st.open), labelled |-> st.labelled]>>
         \o ReleaseDequeues(i, r, ReleaseVisit(i, r, st))

(* The Option<u32> array before the final unwrap of line 403. *)
get_release_times_from_pre_succ_relations(i, r) ==
  ReleaseLoop(i, r, ReleaseSeed(i, r)).release_time

(***************************************************************************)
(* solver.rs: tail propagation.  st = [tail_time, labelled, open].         *)
(***************************************************************************)
TailSeed(i, r) ==
  LET snk == {op \in op_ids(i) : r.succ_job[op] = None /\ r.succ_machine[op] = None}
  IN [tail_time |-> [op \in op_ids(i) |-> 0],
      labelled |-> [op \in op_ids(i) |-> FALSE],
      open |-> Ascending(snk)]

(* the tail taken from the job successor alone *)
TailVisitJobOnly(i, r, st) ==
  LET node == Head(st.open)
      tail == TailOf(st.tail_time, r.succ_job[node]) + i.durations[node]
      labelled == [st.labelled EXCEPT ![node] = TRUE]
      pj == r.pre_job[node]
      pm == r.pre_machine[node]
      q1 == IF pj # None /\ (r.succ_machine[pj] = None \/ labelled[r.succ_machine[pj]])
            THEN Append(Tail(st.open), pj) ELSE Tail(st.open)
      q2 == IF pm # None /\ (r.succ_job[pm] = None \/ labelled[r.succ_job[pm]])
            THEN Append(q1, pm) ELSE q1
  IN [tail_time |-> [st.tail_time EXCEPT ![node] = tail],
      labelled |-> labelled,
      open |-> q2]

TailVisit(i, r, st) ==
  LET node == Head(st.open)
      succ_job_tail == TailOf(st.tail_time, r.succ_job[node])
      succ_machine_tail == TailOf(st.tail_time, r.succ_machine[node])
      tail == Max2(succ_job_tail, succ_machine_tail) + i.durations[node]
      labelled == [st.labelled EXCEPT ![node] = TRUE]
      pj == r.pre_job[node]
      pm == r.pre_machine[node]
      q1 == IF pj # None /\ (r.succ_machine[pj] = None \/ labelled[r.succ_machine[pj]])
            THEN Append(Tail(st.open), pj) ELSE Tail(st.open)
      q2 == IF pm # None /\ (r.succ_job[pm] = None \/ labelled[r.succ_job[pm]])
            THEN Append(q1, pm) ELSE q1
  IN [tail_time |-> [st.tail_time EXCEPT ![node] = tail],
      labelled |-> labelled,
      open |-> q2]

RECURSIVE TailLoop(_, _, _)
TailLoop(i, r, st) ==
  IF st.open = <<>> THEN st ELSE TailLoop(i, r, TailVisit(i, r, st))

RECURSIVE TailDequeues(_, _, _)
TailDequeues(i, r, st) ==
  IF st.open = <<>> THEN <<>>
  ELSE <<[node |-> Head(st.open), labelled |-> st.labelled]>>
         \o TailDequeues(i, r, TailVisit(i, r, st))

get_tail_times_from_pre_succ_relations(i, r) ==
  TailLoop(i, r, TailSeed(i, r)).tail_time

(***************************************************************************)
(* solver.rs: IntermediateSolution                                         *)
(***************************************************************************)
Relations(s) ==
  [pre_job |-> s.pre_job, succ_job |-> s.succ_job,
   pre_machine |-> s.pre_machine, succ_machine |-> s.succ_machine]

(* Heads, tails, path times and Cmax from the four index arrays; ok is FALSE
   when the unwrap of an unlabelled release time (line 403) panics. *)
Derive(i, edges, precedence_edges, pre_job, succ_job, pre_machine, succ_machine) ==
  LET r == [pre_job |-> pre_job, succ_job |-> succ_job,
            pre_machine |-> pre_machine, succ_machine |-> succ_machine]
      release_times == get_release_times_from_pre_succ_relations(i, r)
      tail_times == get_tail_times_from_pre_succ_relations(i, r)
      path_times == [op \in op_ids(i) |-> release_times[op] + tail_times[op]]
  IN [ok |-> \A op \in op_ids(i) : release_times[op] # None,
      oriented_conflict_edges |-> edges,
      precedence_edges |-> precedence_edges,
      pre_job |-> pre_job,
      succ_job |-> succ_job,
      pre_machine |-> pre_machine,
      succ_machine |-> succ_machine,
      release_times |-> release_times,
      tail_times |-> tail_times,
      path_times |-> path_times,
      cmax |-> SeqMax(path_times, op_ids(i))]

(* new without the duplicate panics of get_pre_succ_relations: the arrays as
   they were before the first duplicate are used *)
New_ignoring_duplicates(i, oriented_conflict_edges) ==
  LET precedence_edges == get_precedence_edges(i)
      job == get_pre_succ_relations(i, precedence_edges)
      machine == get_pre_succ_relations(i, oriented_conflict_edges)
  IN Derive(i, oriented_conflict_edges, precedence_edges,
            job.pre, job.succ, machine.pre, machine.succ)

(* IntermediateSolution::new; ok is FALSE when construction panics. *)
New(i, oriented_conflict_edges) ==
  LET precedence_edges == get_precedence_edges(i)
      job == get_pre_succ_relations(i, precedence_edges)
      machine == get_pre_succ_relations(i, oriented_conflict_edges)
  IN IF ~machine.ok
     THEN [ok |-> FALSE]
     ELSE Derive(i, oriented_conflict_edges, precedence_edges,
                 job.pre, job.succ, machine.pre, machine.succ)

cmax(s) == s.cmax

to_solution(s) == s.release_times

is_critical(s, node) == s.path_times[node] = s.cmax

(* the swapped edge itself left as it was *)
ReorientEdge_unreversed(edge, a, b) ==
  LET u == edge[1]
      v == edge[2]
  IN IF u = a /\ v = b THEN <<a, b>>
     ELSE IF v = a THEN <<u, b>>
     ELSE IF u = b THEN <<a, v>>
     ELSE edge

(* the edge into a left as it was *)
ReorientEdge_keeping_predecessor(edge, a, b) ==
  LET u == edge[1]
      v == edge[2]
  IN IF u = a /\ v = b THEN <<b, a>>
     ELSE IF u = b THEN <<a, v>>
     ELSE edge

ReorientEdge(edge, a, b) ==
  LET u == edge[1]
      v == edge[2]
  IN IF u = a /\ v = b THEN <<b, a>>
     ELSE IF v = a THEN <<u, b>>
     ELSE IF u = b THEN <<a, v>>
     ELSE edge

RECURSIVE DropEdge(_, _)
DropEdge(edges, e) ==
  IF edges = <<>> THEN <<>>
  ELSE (IF Head(edges) = e THEN <<>> ELSE <<Head(edges)>>) \o DropEdge(Tail(edges), e)

(* apply_swap that removes (a, b) and pushes (b, a) instead of rewriting the
   edge in place *)
apply_swap_pushing_edge(i, s, a, b) ==
  LET kept == DropEdge(s.oriented_conflict_edges, <<a, b>>)
      edges == Append([k \in 1 .. Len(kept) |-> ReorientEdge(kept[k], a, b)], <<b, a>>)
      pre_machine_a == s.pre_machine[a]
      succ_machine_b == s.succ_machine[b]
      succ1 == IF pre_machine_a # None
               THEN [s.succ_machine EXCEPT ![pre_machine_a] = b]
               ELSE s.succ_machine
      pre1 == IF succ_machine_b # None
              THEN [s.pre_machine EXCEPT ![succ_machine_b] = a]
              ELSE s.pre_machine
      pre2 == [pre1 EXCEPT ![a] = b]
      succ2 == [succ1 EXCEPT ![a] = s.succ_machine[b]]
      pre3 == [pre2 EXCEPT ![b] = s.pre_machine[a]]
      succ3 == [succ2 EXCEPT ![b] = a]
  IN Derive(i, edges, s.precedence_edges, s.pre_job, s.succ_job, pre3, succ3)

(* apply_swap without line 126: the old machine successor of b keeps b as
   its machine predecessor. *)
apply_swap_stale_successor(i, s, a, b) ==
  LET edges == [k \in 1 .. Len(s.oriented_conflict_edges) |->
                  ReorientEdge(s.oriented_conflict_edges[k], a, b)]
      pre_machine_a == s.pre_machine[a]
      succ1 == IF pre_machine_a # None
               THEN [s.succ_machine EXCEPT ![pre_machine_a] = b]
               ELSE s.succ_machine
      pre2 == [s.pre_machine EXCEPT ![a] = b]
      succ2 == [succ1 EXCEPT ![a] = s.succ_machine[b]]
      pre3 == [pre2 EXCEPT ![b] = s.pre_machine[a]]
      succ3 == [succ2 EXCEPT ![b] = a]
  IN Derive(i, edges, s.precedence_edges, s.pre_job, s.succ_job, pre3, succ3)

apply_swap(i, s, a, b) ==
  LET edges == [k \in 1 .. Len(s.oriented_conflict_edges) |->
                  ReorientEdge(s.oriented_conflict_edges[k], a, b)]
      pre_machine_a == s.pre_machine[a]
      succ_machine_b == s.succ_machine[b]
      succ1 == IF pre_machine_a # None
               THEN [s.succ_machine EXCEPT ![pre_machine_a] = b]
               ELSE s.succ_machine
      pre1 == IF succ_machine_b # None
              THEN [s.pre_machine EXCEPT ![succ_machine_b] = a]
              ELSE s.pre_machine
      pre2 == [pre1 EXCEPT ![a] = b]
      succ2 == [succ1 EXCEPT ![a] = s.succ_machine[b]]
      pre3 == [pre2 EXCEPT ![b] = s.pre_machine[a]]
      succ3 == [succ2 EXCEPT ![b] = a]
  IN Derive(i, edges, s.precedence_edges, s.pre_job, s.succ_job, pre3, succ3)

times_after_swap(i, s, a, b) ==
  LET pre_machine_a_end == End(i, s.release_times, s.pre_machine[a])
      pre_job_b_end == End(i, s.release_times, s.pre_job[b])
      pre_job_a_end == End(i, s.release_times, s.pre_job[a])
      succ_machine_b_tail == TailOf(s.tail_times, s.succ_machine[b])
      succ_job_a_tail == TailOf(s.tail_times, s.succ_job[a])
      succ_job_b_tail == TailOf(s.tail_times, s.succ_job[b])
      b_new_release == Max2(pre_machine_a_end, pre_job_b_end)
      b_new_end == b_new_release + i.durations[b]
      a_new_release == Max2(b_new_end, pre_job_a_end)
      a_new_tail == Max2(succ_machine_b_tail, succ_job_a_tail) + i.durations[a]
      b_new_tail == Max2(a_new_tail, succ_job_b_tail) + i.durations[b]
  IN <<a_new_release, a_new_tail, b_new_release, b_new_tail>>

cmax_after_swap(i, s, a, b) ==
  LET t == times_after_swap(i, s, a, b)
  IN Max2(t[3] + t[4], t[1] + t[2])

(* the largest start time instead of the largest end time *)
calculate_cmax_of_starts(i, start_times) ==
  SeqMax(start_times, op_ids(i))

calculate_cmax(i, start_times) ==
  SeqMax([op \in op_ids(i) |-> start_times[op] + i.durations[op]], op_ids(i))

(***************************************************************************)
(* solver.rs: schedule -> orientation bridge                               *)
(***************************************************************************)
(* the comparison of the release times inverted *)
op_ordering_inverted(a, b, release_times, durations) ==
  LET r_a == release_times[a]
      r_b == release_times[b]
      d_a == durations[a]
      d_b == durations[b]
  IN IF r_a > r_b THEN "Less"
     ELSE IF r_a = r_b
          THEN IF d_a = 0 /\ d_b # 0 THEN "Less"
               ELSE IF d_a # 0 /\ d_b = 0 THEN "Greater"
               ELSE IF d_a = 0 /\ d_b = 0
                    THEN (IF a < b THEN "Less"
                          ELSE IF a = b THEN "Equal" ELSE "Greater")
               ELSE "Equal"
     ELSE "Greater"

(* equal release times of two positive durations ordered by op id *)
op_ordering_ties_by_id(a, b, release_times, durations) ==
  LET r_a == release_times[a]
      r_b == release_times[b]
      d_a == durations[a]
      d_b == durations[b]
  IN IF r_a < r_b THEN "Less"
     ELSE IF r_a = r_b
          THEN IF d_a = 0 /\ d_b # 0 THEN "Less"
               ELSE IF d_a # 0 /\ d_b = 0 THEN "Greater"
               ELSE (IF a < b THEN "Less"
                     ELSE IF a = b THEN "Equal" ELSE "Greater")
     ELSE "Greater"

op_ordering(a, b, release_times, durations) ==
  LET r_a == release_times[a]
      r_b == release_times[b]
      d_a == durations[a]
      d_b == durations[b]
  IN IF r_a < r_b THEN "Less"
     ELSE IF r_a = r_b
          THEN IF d_a = 0 /\ d_b # 0 THEN "Less"
               ELSE IF d_a # 0 /\ d_b = 0 THEN "Greater"
               ELSE IF d_a = 0 /\ d_b = 0
                    THEN (IF a < b THEN "Less"
                          ELSE IF a = b THEN "Equal" ELSE "Greater")
               ELSE "Equal"
     ELSE "Greater"

(* "Panic" stands for the panic!() of the Equal arm. *)
is_before(a, b, release_times, durations) ==
  LET ord == op_ordering(a, b, release_times, durations)
  IN IF ord = "Less" THEN "true"
     ELSE IF ord = "Greater" THEN "false"
     ELSE "Panic"

(* One insertion of the stable sort_by on a short slice: x is moved left past
   every element it is_before.  acc = [ok, ops]. *)
RECURSIVE InsertOp(_, _, _, _, _)
InsertOp(ops, k, x, release_times, durations) ==
  IF k = 0 THEN [ok |-> TRUE, ops |-> <<x>> \o ops]
  ELSE LET c == is_before(x, ops[k], release_times, durations)
       IN IF c = "Panic" THEN [ok |-> FALSE, ops |-> ops]
          ELSE IF c = "true"
               THEN InsertOp(ops, k - 1, x, release_times, durations)
               ELSE [ok |-> TRUE,
                     ops |-> SubSeq(ops, 1, k) \o <<x>> \o SubSeq(ops, k + 1, Len(ops))]

RECURSIVE SortOps(_, _, _, _, _)
SortOps(ops, k, acc, release_times, durations) ==
  IF k > Len(ops) \/ ~acc.ok THEN acc
  ELSE SortOps(ops, k + 1,
               InsertOp(acc.ops, Len(acc.ops), ops[k], release_times, durations),
               release_times, durations)

RECURSIVE Windows(_, _)
Windows(ops, k) ==
  IF k >= Len(ops) THEN <<>>
  ELSE <<<<ops[k], ops[k + 1]>>>> \o Windows(ops, k + 1)

RECURSIVE OrientMachines(_, _, _, _)
OrientMachines(i, start_times, m, acc) ==
  IF m >= i.n_machines \/ ~acc.ok THEN acc
  ELSE LET ops == Ascending({op \in op_ids(i) : i.machines[op] = m})
           sorted == SortOps(ops, 1, [ok |-> TRUE, ops |-> <<>>],
                             start_times, i.durations)
       IN OrientMachines(i, start_times, m + 1,
                         [ok |-> sorted.ok,
                          edges |-> acc.edges \o Windows(sorted.ops, 1)])

(* [ok, edges]; ok is FALSE when is_before panics. *)
get_orientation_from_schedule(i, start_times) ==
  OrientMachines(i, start_times, 0, [ok |-> TRUE, edges |-> <<>>])

(***************************************************************************)
(* solver/n1.rs: the N1 neighbourhood                                      *)
(***************************************************************************)
CriticalOrNone(s, x) == IF x # None /\ is_critical(s, x) THEN x ELSE None

TraceNexts(i, s, current) ==
  LET o1 == CriticalOrNone(s, s.pre_job[current])
      o2 == CriticalOrNone(s, s.pre_machine[current])
  IN IF o1 # None /\ o2 # None
     THEN LET ord == op_ordering(o1, o2, s.release_times, i.durations)
          IN IF ord = "Less" THEN <<o2>>
             ELSE IF ord = "Greater" THEN <<o1>>
             ELSE <<o1, o2>>
     ELSE IF o1 # None THEN <<o1>>
     ELSE IF o2 # None THEN <<o2>>
     ELSE <<>>

RECURSIVE TraceLoop(_, _, _, _)
TraceLoop(i, s, open, critical_arcs) ==
  IF open = <<>> THEN critical_arcs
  ELSE LET current == Head(open)
           nexts == TraceNexts(i, s, current)
       IN TraceLoop(i, s, Tail(open) \o nexts,
                    critical_arcs \cup {<<nexts[k], current>> : k \in 1 .. Len(nexts)})

CriticalArcs(i, s) ==
  TraceLoop(i, s,
            Ascending({op \in op_ids(i) :
                         /\ is_critical(s, op)
                         /\ s.succ_job[op] = None
                         /\ s.succ_machine[op] = None}),
            {})

ArcLess(x, y) == x[1] < y[1] \/ (x[1] = y[1] /\ x[2] < y[2])

(* BTreeSet iteration order *)
RECURSIVE ArcsInOrder(_)
ArcsInOrder(S) ==
  IF S = {} THEN <<>>
  ELSE LET x == CHOOSE y \in S : \A z \in S \ {y} : ArcLess(y, z)
       IN <<x>> \o ArcsInOrder(S \ {x})

Contains(edges, e) == \E k \in 1 .. Len(edges) : edges[k] = e

IsMove(i, s, e) ==
  /\ i.machines[e[1]] = i.machines[e[2]]
  /\ Contains(s.oriented_conflict_edges, e)

RECURSIVE MovesOf(_, _, _, _)
MovesOf(i, s, arcs, k) ==
  IF k > Len(arcs) THEN <<>>
  ELSE LET e == arcs[k]
       IN (IF IsMove(i, s, e)
           THEN <<[swap_move |-> e, cmax |-> cmax_after_swap(i, s, e[1], e[2])]>>
           ELSE <<>>) \o MovesOf(i, s, arcs, k + 1)

generate_moves(i, s) == MovesOf(i, s, ArcsInOrder(CriticalArcs(i, s)), 1)

(* find_move, Exhaustive, with the hill climbers' predicate: a candidate
   replaces the best so far iff its estimate is strictly smaller. *)
RECURSIVE FindBest(_, _, _)
FindBest(moves, k, best) ==
  IF k > Len(moves) THEN best
  ELSE FindBest(moves, k + 1,
                IF best = <<>> \/ moves[k].cmax < best[1].cmax
                THEN <<moves[k]>> ELSE best)

(* <<>> for None, <<move>> for Some(move) *)
find_move_best(i, s) == FindBest(generate_moves(i, s), 1, <<>>)

(***************************************************************************)
(* The constructive loops: generate_random_solution and priority            *)
(***************************************************************************)
RemoveAt(q, k) == SubSeq(q, 1, k - 1) \o SubSeq(q, k + 1, Len(q))

RECURSIVE Retain(_, _)
Retain(q, x) ==
  IF q = <<>> THEN <<>>
  ELSE (IF Head(q) # x THEN <<Head(q)>> ELSE <<>>) \o Retain(Tail(q), x)

RECURSIVE Filter(_, _)
Filter(q, S) ==
  IF q = <<>> THEN <<>>
  ELSE (IF Head(q) \in S THEN <<Head(q)>> ELSE <<>>) \o Filter(Tail(q), S)

InitialReady(i) == [k \in 1 .. i.n_jobs |-> op_to_id(i, k - 1, 0)]

(* Lexicographic < on tuples of equal length *)
RECURSIVE LexLess(_, _)
LexLess(x, y) ==
  IF x = <<>> THEN FALSE
  ELSE Head(x) < Head(y) \/ (Head(x) = Head(y) /\ LexLess(Tail(x), Tail(y)))

ReleaseTimeJobClockOnly(chosen_op) ==
  job_next_release[op_from_id(inst, chosen_op)[1]]

(* let release_time = cmp::max(job_next_release[j], machine_next_release[m]) *)
ReleaseTime(chosen_op) ==
  Max2(job_next_release[op_from_id(inst, chosen_op)[1]],
       machine_next_release[inst.machines[chosen_op]])

(* The body shared by both loops from "let [j, o] = inst.op_from_id(chosen_op)"
   on: schedule chosen_op, advance the clocks, replace it in the ready list
   (rest) by its job successor. *)
Schedule(chosen_op, rest, next_pc) ==
  LET j == op_from_id(inst, chosen_op)[1]
      o == op_from_id(inst, chosen_op)[2]
      m == inst.machines[chosen_op]
      release_time == ReleaseTime(chosen_op)
      finish_time == release_time + inst.durations[chosen_op]
      queue == IF o < inst.n_machines - 1
               THEN Append(rest, op_to_id(inst, j, o + 1))
               ELSE rest
      returns == queue = <<>>
  IN /\ op_start_times' = [op_start_times EXCEPT ![chosen_op] = release_time]
     /\ times_scheduled' = [times_scheduled EXCEPT ![chosen_op] = @ + 1]
     /\ ready' = queue
     /\ machine_next_release' =
          IF returns THEN [x \in DOMAIN machine_next_release |-> 0]
          ELSE [machine_next_release EXCEPT ![m] = finish_time]
     /\ job_next_release' =
          IF returns THEN [x \in DOMAIN job_next_release |-> 0]
          ELSE [job_next_release EXCEPT ![j] = finish_time]
     /\ pc' = IF returns THEN "schedule" ELSE next_pc

(* solver.rs generate_random_solution: one iteration of the while loop, the
   random index being any index of the ready list. *)
RandomStep ==
  /\ pc = "generate"
  /\ ready # <<>>
  /\ \E chosen_idx \in 1 .. Len(ready) :
       Schedule(ready[chosen_idx], RemoveAt(ready, chosen_idx), "generate")
  /\ UNCHANGED <<inst, solver, rule, sol, swapped>>
  /\ UNCHANGED search
  /\ UNCHANGED locals

get_work_remaining(i, job, op) ==
  LET RECURSIVE Sum(_)
      Sum(upcoming_op) ==
        IF upcoming_op >= i.n_machines THEN 0
        ELSE i.durations[op_to_id(i, job, upcoming_op)] + Sum(upcoming_op + 1)
  IN Sum(op)

Rules == {"sps", "lps", "spt", "lpt", "lwrm", "mwrm"}

(* spt and lpt with ties broken by position before job *)
RuleKeyPositionBeforeJob(r, i, op_id) ==
  LET j == op_from_id(i, op_id)[1]
      o == op_from_id(i, op_id)[2]
  IN IF r \in {"sps", "lps"} THEN <<o, j>>
     ELSE IF r \in {"spt", "lpt"} THEN <<i.durations[op_id], o, j>>
     ELSE <<get_work_remaining(i, j, o), j, o>>

RuleKey(r, i, op_id) ==
  LET j == op_from_id(i, op_id)[1]
      o == op_from_id(i, op_id)[2]
  IN IF r \in {"sps", "lps"} THEN <<o, j>>
     ELSE IF r \in {"spt", "lpt"} THEN <<i.durations[op_id], j, o>>
     ELSE <<get_work_remaining(i, j, o), j, o>>

(* The six closures: the index into candidates of the minimum (sps, spt,
   lwrm) or maximum (lps, lpt, mwrm) key; 0 when candidates is empty and the
   closure's unwrap() panics. *)
choose_next(r, i, candidates) ==
  IF candidates = <<>> THEN 0
  ELSE CHOOSE k \in 1 .. Len(candidates) :
         \A l \in (1 .. Len(candidates)) \ {k} :
           IF r \in {"sps", "spt", "lwrm"}
           THEN LexLess(RuleKey(r, i, candidates[k]), RuleKey(r, i, candidates[l]))
           ELSE LexLess(RuleKey(r, i, candidates[l]), RuleKey(r, i, candidates[k]))

Completion(op_id) ==
  Max2(job_next_release[JobOf(inst, op_id)],
       machine_next_release[inst.machines[op_id]]) + inst.durations[op_id]

EarliestCompletionOp ==
  CHOOSE k \in 1 .. Len(ready) :
    \A l \in (1 .. Len(ready)) \ {k} :
      LexLess(<<Completion(ready[k]), ready[k]>>, <<Completion(ready[l]), ready[l]>>)

CandidatesReleasedStrictlyBefore ==
  LET earliest_completion_op == ready[EarliestCompletionOp]
      earliest_completion == Completion(earliest_completion_op)
      target_machine == inst.machines[earliest_completion_op]
  IN Filter(ready, {op_id \in op_ids(inst) :
                      /\ inst.machines[op_id] = target_machine
                      /\ job_next_release[JobOf(inst, op_id)] < earliest_completion})

Candidates ==
  LET earliest_completion_op == ready[EarliestCompletionOp]
      earliest_completion == Completion(earliest_completion_op)
      target_machine == inst.machines[earliest_completion_op]
  IN Filter(ready, {op_id \in op_ids(inst) :
                      /\ inst.machines[op_id] = target_machine
                      /\ job_next_release[JobOf(inst, op_id)] <= earliest_completion})

(* solver/priority.rs find_solution: one iteration of the while loop. *)
PriorityStep ==
  /\ pc = "dispatch"
  /\ ready # <<>>
  /\ LET candidates == Candidates
         chosen_idx == choose_next(rule, inst, candidates)
     IN IF chosen_idx = 0
        THEN /\ pc' = "panic"
             /\ UNCHANGED <<ready, op_start_times, machine_next_release,
                            job_next_release, times_scheduled>>
        ELSE Schedule(candidates[chosen_idx],
                      Retain(ready, candidates[chosen_idx]), "dispatch")
  /\ UNCHANGED <<inst, solver, rule, sol, swapped>>
  /\ UNCHANGED search
  /\ UNCHANGED locals

(***************************************************************************)
(* The searches on the disjunctive graph state                             *)
(***************************************************************************)
NoSolution == [ok |-> FALSE]

(* IntermediateSolution::new(inst, get_orientation_from_schedule(inst, s)),
   the first statement of every search.  The Solution is a temporary that is
   dropped here, except in improve_solution (its parameter). *)
Construct ==
  /\ pc = "schedule"
  /\ solver # "none"
  /\ LET o == get_orientation_from_schedule(inst, op_start_times)
         s == New(inst, o.edges)
     IN IF o.ok /\ s.ok
        THEN /\ sol' = s
             /\ pc' = IF solver = "hill_climber" THEN "climb" ELSE "state"
        ELSE /\ sol' = sol
             /\ pc' = "panic"
  /\ op_start_times' = IF solver \in {"hill_climber", "bridge"}
                       THEN op_start_times
                       ELSE [op \in op_ids(inst) |-> 0]
  /\ UNCHANGED <<inst, solver, rule, ready, machine_next_release,
                 job_next_release, times_scheduled, swapped>>
  /\ UNCHANGED search
  /\ UNCHANGED locals

(* current = current.apply_swap(a, b) for a move of generate_moves(current):
   the step random restart, tabu search and simulated annealing share. *)
Swap ==
  /\ pc = "state"
  /\ solver = "n1"
  /\ LET moves == generate_moves(inst, sol)
     IN \E k \in 1 .. Len(moves) :
          LET next == apply_swap(inst, sol, moves[k].swap_move[1], moves[k].swap_move[2])
          IN IF next.ok
             THEN sol' = next /\ swapped' = TRUE /\ pc' = "state"
             ELSE sol' = sol /\ swapped' = swapped /\ pc' = "panic"
  /\ UNCHANGED <<inst, solver, rule, ready, op_start_times, machine_next_release,
                 job_next_release, times_scheduled>>
  /\ UNCHANGED search
  /\ UNCHANGED locals

(* current.apply_swap(a, b) for any oriented conflict edge (a, b) of the
   current state, whether generate_moves returns it or not. *)
SwapEdge ==
  /\ pc = "state"
  /\ solver = "edges"
  /\ \E k \in 1 .. Len(sol.oriented_conflict_edges) :
       LET next == apply_swap(inst, sol, sol.oriented_conflict_edges[k][1],
                              sol.oriented_conflict_edges[k][2])
       IN IF next.ok
          THEN sol' = next /\ swapped' = TRUE /\ pc' = "state"
          ELSE sol' = sol /\ swapped' = swapped /\ pc' = "panic"
  /\ UNCHANGED <<inst, solver, rule, ready, op_start_times, machine_next_release,
                 job_next_release, times_scheduled>>
  /\ UNCHANGED search
  /\ UNCHANGED locals

(* the filter with <= in place of < *)
maybe_improvement_or_equal(i, s) ==
  LET maybe_move == find_move_best(i, s)
  IN IF maybe_move # <<>> /\ maybe_move[1].cmax <= cmax(s)
     THEN maybe_move ELSE <<>>

(* the best move taken whatever its estimate *)
maybe_improvement_unfiltered(i, s) == find_move_best(i, s)

(* maybe_move.filter(|m| m.cmax < current_solution.cmax()) *)
maybe_improvement(i, s) ==
  LET maybe_move == find_move_best(i, s)
  IN IF maybe_move # <<>> /\ maybe_move[1].cmax < cmax(s)
     THEN maybe_move ELSE <<>>

(* solver/hill_climber.rs improve_solution: one iteration of the loop. *)
Climb ==
  /\ pc = "climb"
  /\ LET improvement == maybe_improvement(inst, sol)
     IN IF improvement # <<>>
        THEN LET swap_move == improvement[1].swap_move
                 next == apply_swap(inst, sol, swap_move[1], swap_move[2])
             IN IF next.ok
                THEN sol' = next /\ swapped' = TRUE /\ pc' = "climb"
                ELSE sol' = sol /\ swapped' = swapped /\ pc' = "panic"
        ELSE /\ pc' = "done"
             /\ UNCHANGED <<sol, swapped>>
  /\ UNCHANGED <<inst, solver, rule, ready, op_start_times, machine_next_release,
                 job_next_release, times_scheduled>>
  /\ UNCHANGED search
  /\ UNCHANGED locals

(***************************************************************************)
(* The seeded generator and random-restart hill climbing                   *)
(***************************************************************************)
(* ChaChaRng::seed_from_u64(config.seed): the values the generator yields
   are a function of the seed alone; a seed stands for the stream it
   determines (repeated when exhausted). *)
Seeds == [1 .. SeedLen -> 0 .. (MaxJobs - 1)]

(* rng.gen_range(0, n) as draw number k of the stream of seed s *)
gen_range(s, k, n) == s[(k % Len(s)) + 1] % n

(* solver.rs generate_random_solution on the seeded generator: the whole
   while loop; st carries the locals and the number of draws taken. *)
RECURSIVE SeededLoop(_, _, _)
SeededLoop(i, s, st) ==
  IF st.ready = <<>> THEN st
  ELSE LET chosen_idx == gen_range(s, st.rng, Len(st.ready)) + 1
           chosen_op == st.ready[chosen_idx]
           rest == RemoveAt(st.ready, chosen_idx)
           j == op_from_id(i, chosen_op)[1]
           o == op_from_id(i, chosen_op)[2]
           m == i.machines[chosen_op]
           release_time == Max2(st.job_next_release[j], st.machine_next_release[m])
           finish_time == release_time + i.durations[chosen_op]
       IN SeededLoop(i, s,
            [ready |-> IF o < i.n_machines - 1
                       THEN Append(rest, op_to_id(i, j, o + 1))
                       ELSE rest,
             op_start_times |-> [st.op_start_times EXCEPT ![chosen_op] = release_time],
             machine_next_release |-> [st.machine_next_release EXCEPT ![m] = finish_time],
             job_next_release |-> [st.job_next_release EXCEPT ![j] = finish_time],
             rng |-> st.rng + 1])

generate_random_solution(i, s, k) ==
  SeededLoop(i, s,
    [ready |-> InitialReady(i),
     op_start_times |-> [op \in op_ids(i) |-> 0],
     machine_next_release |-> [x \in 0 .. (i.n_machines - 1) |-> 0],
     job_next_release |-> [x \in 0 .. (i.n_jobs - 1) |-> 0],
     rng |-> k])

(* the best update dropped: the latest state is kept as the best *)
keep_current(current, best_so_far) == current

(* the best update dropped: the first state stays the best *)
keep_first(current, best_so_far) == best_so_far

(* if current.cmax() < best.cmax() { best = current.clone() }:
   random_restart_hill_climber.rs lines 60-67, tabu_search.rs lines 106-109 *)
keep_best(current, best_so_far) ==
  IF cmax(current) < cmax(best_so_far) THEN current ELSE best_so_far

(* generate_solution of the timed searches, as a state:
   IntermediateSolution::new(inst, get_orientation_from_schedule(inst,
   generate_random_solution(inst, rng))) and the draws it took. *)
generate_solution(i, s, k) ==
  LET g == generate_random_solution(i, s, k)
      o == get_orientation_from_schedule(i, g.op_start_times)
      state == IF o.ok THEN New(i, o.edges) ELSE NoSolution
  IN [state |-> state, rng |-> g.rng]

(* random_restart_hill_climber.rs find_solution, lines 16-25 *)
RestartBegin ==
  /\ pc = "entry"
  /\ solver = "restart"
  /\ LET g == generate_solution(inst, seed, 0)
     IN IF g.state.ok
        THEN /\ sol' = g.state
             /\ best_solution' = g.state
             /\ rng' = g.rng
             /\ iteration' = 0
             /\ lowest' = cmax(g.state)
             /\ pc' = "loop"
        ELSE /\ pc' = "panic"
             /\ UNCHANGED <<sol, best_solution, rng, iteration, lowest>>
  /\ UNCHANGED <<inst, solver, rule, ready, op_start_times, machine_next_release,
                 job_next_release, times_scheduled, swapped, seed, run, first,
                 orientation>>
  /\ UNCHANGED <<op_last_swap, op_push_back_count, total_push_back_count,
                 max_delta, local_best, inner_iteration, accepted_move_costs,
                 applied>>
  /\ UNCHANGED estimate

(* one iteration of the while loop, lines 26-70: the clock read at line 26
   is still below config.timeout *)
RestartIterate ==
  /\ pc = "loop"
  /\ solver = "restart"
  /\ iteration < MaxIter
  /\ LET improvement == maybe_improvement(inst, sol)
         g == IF improvement # <<>>
              THEN [state |-> apply_swap(inst, sol, improvement[1].swap_move[1],
                                         improvement[1].swap_move[2]),
                    rng |-> rng]
              ELSE generate_solution(inst, seed, rng)
     IN IF g.state.ok
        THEN /\ sol' = g.state
             /\ rng' = g.rng
             /\ swapped' = (improvement # <<>>)
             /\ best_solution' = keep_best(g.state, best_solution)
             /\ iteration' = iteration + 1
             /\ lowest' = IF cmax(g.state) < lowest THEN cmax(g.state) ELSE lowest
             /\ pc' = "loop"
        ELSE /\ pc' = "panic"
             /\ UNCHANGED <<sol, rng, swapped, best_solution, iteration, lowest>>
  /\ UNCHANGED <<inst, solver, rule, ready, op_start_times, machine_next_release,
                 job_next_release, times_scheduled, seed, run, first, orientation>>
  /\ UNCHANGED <<op_last_swap, op_push_back_count, total_push_back_count,
                 max_delta, local_best, inner_iteration, accepted_move_costs,
                 applied>>
  /\ UNCHANGED estimate

(* the clock read at line 26 has reached config.timeout: return best_solution
   (lines 72-78).  When that happens depends on the wall clock alone. *)
RestartTimeout ==
  /\ pc = "loop"
  /\ solver = "restart"
  /\ pc' = "returned"
  /\ UNCHANGED <<inst, solver, rule, ready, op_start_times, machine_next_release,
                 job_next_release, times_scheduled, sol, swapped>>
  /\ UNCHANGED search
  /\ UNCHANGED locals

(* main.rs run once more on the same instance file with the same --seed and
   --timeout; what the first run returned is kept for comparison. *)
RunAgain ==
  /\ pc = "returned"
  /\ run = 1
  /\ first' = [solution |-> to_solution(best_solution), iterations |-> iteration]
  /\ run' = 2
  /\ pc' = "entry"
  /\ sol' = NoSolution
  /\ best_solution' = NoSolution
  /\ rng' = 0
  /\ iteration' = 0
  /\ swapped' = FALSE
  /\ lowest' = 0
  /\ UNCHANGED <<inst, solver, rule, ready, op_start_times, machine_next_release,
                 job_next_release, times_scheduled, seed, orientation>>
  /\ UNCHANGED <<op_last_swap, op_push_back_count, total_push_back_count,
                 max_delta, local_best, inner_iteration, accepted_move_costs,
                 applied>>
  /\ UNCHANGED estimate


(***************************************************************************)
(* solver/tabu_search.rs                                                   *)
(***************************************************************************)
(* i32::min_value() *)
MinI32 == -2147483647 - 1

(* ((n + m / 2.0) * (-n / (5.0 * m)).exp() + (n * m) / 2.0 * (-5.0 * m /
   n).exp()) as i32, lines 25-26, for n up to 5 jobs (rows) and m up to 5
   machines: the f32 values are
     1.231 1.810 2.339 2.854 3.363
     1.758 2.470 3.065 3.620 4.154
     2.204 3.070 3.715 4.311 4.880
     2.595 3.680 4.354 4.966 5.558
     2.943 4.316 5.031 5.635 6.225
   truncated by the cast. *)
tabu_duration(i) ==
  <<<<1, 1, 2, 2, 3>>, <<1, 2, 3, 3, 4>>, <<2, 3, 3, 4, 4>>, <<2, 3, 4, 4, 5>>,
    <<2, 4, 5, 5, 6>>>>[i.n_jobs][i.n_machines]

(* x < sqrt(q) * y for integers x, y and q >= 0 *)
LessThanRootTimes(x, q, y) ==
  IF y >= 0 THEN x < 0 \/ x * x < q * y * y
  ELSE x < 0 /\ x * x > q * y * y

(* candidate_evaluation < current_evaluation, lines 63-70.  With
   penalty_factor = 0.5 * max_delta * sqrt(n * m) the comparison
     cmax_c + penalty_factor * count_c / total
       < cmax_b + penalty_factor * count_b / total
   is, for total > 0,
     2 * total * (cmax_c - cmax_b) < sqrt(n * m) * max_delta * (count_b - count_c).
   For total = 0 every count is 0, both penalties are 0.0 / 0.0 = NaN, both
   evaluations are NaN and < is false. *)
EvaluationLess(i, candidate, current_best) ==
  IF total_push_back_count = 0 THEN FALSE
  ELSE LessThanRootTimes(
         2 * total_push_back_count * (candidate.cmax - current_best.cmax),
         i.n_jobs * i.n_machines,
         max_delta * (op_push_back_count[current_best.swap_move[2]]
                        - op_push_back_count[candidate.swap_move[2]]))

(* the tabu test on the operation pushed back, not on the one pulled ahead *)
IsTabuOfSecond(i, candidate) ==
  iteration < op_last_swap[candidate.swap_move[2]] + tabu_duration(i)

(* iteration < tabu_until, lines 42-43 *)
IsTabu(i, candidate) ==
  iteration < op_last_swap[candidate.swap_move[1]] + tabu_duration(i)

(* lines 41-60: FALSE when the closure returns false for a tabu move *)
PassesTabuTest(i, candidate) ==
  ~IsTabu(i, candidate) \/ candidate.cmax < cmax(best_solution)

(* the closure handed to find_move, lines 40-74; maybe_best is <<>> for None *)
should_accept(i, maybe_best, candidate) ==
  /\ PassesTabuTest(i, candidate)
  /\ maybe_best = <<>> \/ EvaluationLess(i, candidate, maybe_best[1])

(* n1::find_move, Exhaustive, with the closure of tabu search *)
RECURSIVE TabuFind(_, _, _, _)
TabuFind(i, moves, k, maybe_best) ==
  IF k > Len(moves) THEN maybe_best
  ELSE TabuFind(i, moves, k + 1,
                IF should_accept(i, maybe_best, moves[k])
                THEN <<moves[k]>> ELSE maybe_best)

saturating_sub(x, y) == IF x >= y THEN x - y ELSE 0

(* find_solution, lines 18-35 *)
TabuBegin ==
  /\ pc = "entry"
  /\ solver = "tabu"
  /\ LET g == generate_solution(inst, seed, 0)
     IN IF g.state.ok
        THEN /\ sol' = g.state
             /\ best_solution' = g.state
             /\ rng' = g.rng
             /\ op_last_swap' = [op \in op_ids(inst) |-> MinI32]
             /\ op_push_back_count' = [op \in op_ids(inst) |-> 0]
             /\ total_push_back_count' = 0
             /\ max_delta' = 0
             /\ iteration' = 0
             /\ lowest' = cmax(g.state)
             /\ pc' = "loop"
        ELSE /\ pc' = "panic"
             /\ UNCHANGED <<sol, best_solution, rng, op_last_swap,
                            op_push_back_count, total_push_back_count,
                            max_delta, iteration, lowest>>
  /\ UNCHANGED <<inst, solver, rule, ready, op_start_times, machine_next_release,
                 job_next_release, times_scheduled, swapped, seed, run, first,
                 orientation, local_best, inner_iteration, accepted_move_costs,
                 applied>>
  /\ UNCHANGED estimate

(* one iteration of the while loop, lines 36-112: the clock read at line 36
   is still below config.timeout.  applied records what the iteration did. *)
TabuIterate ==
  /\ pc = "loop"
  /\ solver = "tabu"
  /\ iteration < MaxTabuIter
  /\ LET maybe_move == TabuFind(inst, generate_moves(inst, sol), 1, <<>>)
     IN IF maybe_move # <<>>
        THEN LET next_move == maybe_move[1]
                 a == next_move.swap_move[1]
                 b == next_move.swap_move[2]
                 delta == saturating_sub(next_move.cmax, cmax(sol))
                 current == apply_swap(inst, sol, a, b)
             IN IF current.ok
                THEN /\ sol' = current
                     /\ max_delta' = Max2(max_delta, delta)
                     /\ op_last_swap' = [op_last_swap EXCEPT ![b] = iteration]
                     /\ op_push_back_count' = [op_push_back_count EXCEPT ![b] = @ + 1]
                     /\ total_push_back_count' = total_push_back_count + 1
                     /\ rng' = rng
                     /\ swapped' = TRUE
                     /\ best_solution' = keep_best(current, best_solution)
                     /\ lowest' = IF cmax(current) < lowest THEN cmax(current) ELSE lowest
                     /\ applied' = Append(applied,
                                     [kind |-> "swap", a |-> a, b |-> b,
                                      cmax |-> next_move.cmax,
                                      best |-> cmax(best_solution),
                                      tabu |-> IsTabu(inst, next_move)])
                     /\ iteration' = iteration + 1
                     /\ pc' = "loop"
                ELSE /\ pc' = "panic"
                     /\ UNCHANGED <<sol, max_delta, op_last_swap, op_push_back_count,
                                    total_push_back_count, rng, swapped,
                                    best_solution, lowest, applied, iteration>>
        ELSE LET g == generate_solution(inst, seed, rng)
             IN IF g.state.ok
                THEN /\ sol' = g.state
                     /\ rng' = g.rng
                     /\ op_last_swap' = [op \in op_ids(inst) |-> MinI32]
                     /\ op_push_back_count' = [op \in op_ids(inst) |-> 0]
                     /\ total_push_back_count' = 0
                     /\ max_delta' = 0
                     /\ swapped' = FALSE
                     /\ best_solution' = keep_best(g.state, best_solution)
                     /\ lowest' = IF cmax(g.state) < lowest THEN cmax(g.state) ELSE lowest
                     /\ applied' = Append(applied,
                                     [kind |-> "reset", a |-> None, b |-> None,
                                      cmax |-> cmax(g.state),
                                      best |-> cmax(best_solution),
                                      tabu |-> FALSE])
                     /\ iteration' = iteration + 1
                     /\ pc' = "loop"
                ELSE /\ pc' = "panic"
                     /\ UNCHANGED <<sol, max_delta, op_last_swap, op_push_back_count,
                                    total_push_back_count, rng, swapped,
                                    best_solution, lowest, applied, iteration>>
  /\ UNCHANGED <<inst, solver, rule, ready, op_start_times, machine_next_release,
                 job_next_release, times_scheduled, seed, run, first, orientation,
                 local_best, inner_iteration, accepted_move_costs>>
  /\ UNCHANGED estimate

(* the clock read at line 36 has reached config.timeout: return best (lines
   114-116) *)
TabuTimeout ==
  /\ pc = "loop"
  /\ solver = "tabu"
  /\ pc' = "returned"
  /\ UNCHANGED <<inst, solver, rule, ready, op_start_times, machine_next_release,
                 job_next_release, times_scheduled, sol, swapped>>
  /\ UNCHANGED search
  /\ UNCHANGED locals

(***************************************************************************)
(* solver/simulated_annealing.rs                                           *)
(*                                                                         *)
(* The temperature is not represented: whether a worsening move is         *)
(* accepted depends on it and on a draw of the generator, and is either    *)
(* outcome here.  iter().choose(rng) takes any element.  Both take one     *)
(* draw.                                                                   *)
(***************************************************************************)
(* let trials = 30, line 209 *)
trials == 30

(* a u32 as its two 16-bit halves <<high, low>> *)
Halves(x) == <<(x \div 65536) % 65536, x % 65536>>

(* chosen_move.cmax - solution.cmax on u32 where it does not trap: the
   difference modulo 2^32 *)
wrapping_sub(x, y) == Halves(x - y)

(* |&d| d <= 0.0 of the partition, line 221, on a delta cast from u32 *)
IsImproving(d) == d = <<0, 0>>

(* cmp::max(inst.n_ops().checked_sub(inst.n_machines).unwrap(), 1), line 66 *)
equilibrium_iterations(i) == Max2(n_ops(i) - i.n_machines, 1)

(* std_dev(&accepted_move_costs).abs() > 0.0, lines 148-151: the mean of the
   squared distances to the mean is positive exactly when two costs differ *)
HasVariation(costs) ==
  \E j \in 1 .. Len(costs) : \E k \in 1 .. Len(costs) : costs[j] # costs[k]

(* what the history records of a state that was current *)
Seen(kind, s) ==
  [kind |-> kind, a |-> None, b |-> None, cmax |-> cmax(s), best |-> None,
   tabu |-> FALSE]

(* find_solution, lines 20-26 *)
SaBegin ==
  /\ pc = "entry"
  /\ solver = "sa"
  /\ LET g == generate_solution(inst, seed, 0)
     IN IF g.state.ok
        THEN /\ best_solution' = g.state
             /\ rng' = g.rng
             /\ iteration' = 0
             /\ lowest' = cmax(g.state)
             /\ applied' = <<Seen("first", g.state)>>
             /\ pc' = "loop"
        ELSE /\ pc' = "panic"
             /\ UNCHANGED <<best_solution, rng, iteration, lowest, applied>>
  /\ UNCHANGED <<inst, solver, rule, ready, op_start_times, machine_next_release,
                 job_next_release, times_scheduled, sol, swapped, seed, run,
                 first, orientation, op_last_swap, op_push_back_count,
                 total_push_back_count, max_delta, local_best, inner_iteration,
                 accepted_move_costs>>
  /\ UNCHANGED estimate

(* find_solution line 27 with the clock below config.timeout, line 28, and
   run_sa lines 58-69 up to the call of estimate_initial_temperature *)
SaPass ==
  /\ pc = "loop"
  /\ solver = "sa"
  /\ iteration < MaxSaIter
  /\ LET g == generate_solution(inst, seed, rng)
     IN IF g.state.ok
        THEN /\ sol' = g.state
             /\ local_best' = g.state
             /\ rng' = g.rng
             /\ swapped' = FALSE
             /\ lowest' = IF cmax(g.state) < lowest THEN cmax(g.state) ELSE lowest
             /\ applied' = Append(applied, Seen("pass", g.state))
             /\ pc' = "estimate"
        ELSE /\ pc' = "panic"
             /\ UNCHANGED <<sol, local_best, rng, swapped, lowest, applied>>
  /\ UNCHANGED <<inst, solver, rule, ready, op_start_times, machine_next_release,
                 job_next_release, times_scheduled, seed, iteration,
                 best_solution, run, first, orientation, op_last_swap,
                 op_push_back_count, total_push_back_count, max_delta,
                 inner_iteration, accepted_move_costs>>
  /\ UNCHANGED estimate

(* estimate_initial_temperature, lines 211-214: one trial up to the choice of
   a move *)
EstimateSample ==
  /\ pc = "estimate"
  /\ trial < trials
  /\ LET g == generate_solution(inst, seed, rng)
     IN IF g.state.ok
        THEN LET moves == generate_moves(inst, g.state)
             IN /\ solution' = g.state
                /\ IF moves = <<>>
                   THEN /\ chosen_move' = <<>>
                        /\ rng' = g.rng
                        /\ trial' = trial + 1
                        /\ pc' = "estimate"
                   ELSE /\ \E k \in 1 .. Len(moves) : chosen_move' = <<moves[k]>>
                        /\ rng' = g.rng + 1
                        /\ trial' = trial
                        /\ pc' = "delta"
        ELSE /\ pc' = "panic"
             /\ UNCHANGED <<solution, chosen_move, rng, trial>>
  /\ UNCHANGED <<inst, solver, rule, ready, op_start_times, machine_next_release,
                 job_next_release, times_scheduled, sol, swapped, seed, iteration,
                 best_solution, run, first, orientation, op_last_swap,
                 op_push_back_count, total_push_back_count, max_delta,
                 local_best, inner_iteration, accepted_move_costs, lowest,
                 applied, delta_pushed, improving_move_count,
                 worsening_move_count>>

(* estimate_initial_temperature, lines 215-216 and the partition of line 221
   applied to the delta pushed.  The subtraction is on u32: below zero it
   traps where overflow checks are compiled in and wraps where they are
   not. *)
EstimateDelta ==
  /\ pc = "delta"
  /\ LET x == chosen_move[1].cmax
         y == cmax(solution)
         d == wrapping_sub(x, y)
         pushed == /\ delta_pushed' = d
                   /\ improving_move_count' =
                        improving_move_count + (IF IsImproving(d) THEN 1 ELSE 0)
                   /\ worsening_move_count' =
                        worsening_move_count + (IF IsImproving(d) THEN 0 ELSE 1)
                   /\ trial' = trial + 1
                   /\ pc' = "estimate"
         trapped == /\ pc' = "panic"
                    /\ UNCHANGED <<delta_pushed, improving_move_count,
                                   worsening_move_count, trial>>
     IN IF x >= y THEN pushed ELSE pushed \/ trapped
  /\ UNCHANGED <<inst, solver, rule, ready, op_start_times, machine_next_release,
                 job_next_release, times_scheduled, sol, swapped, solution,
                 chosen_move>>
  /\ UNCHANGED search
  /\ UNCHANGED <<op_last_swap, op_push_back_count, total_push_back_count,
                 max_delta, local_best, inner_iteration, accepted_move_costs,
                 lowest, applied>>

(* estimate_initial_temperature, lines 220-231, and run_sa lines 70-76: the
   temperature is computed from the two counts and the worsening deltas *)
EstimateReturn ==
  /\ pc = "estimate"
  /\ trial = trials
  /\ trial' = 0
  /\ solution' = NoSolution
  /\ chosen_move' = <<>>
  /\ delta_pushed' = <<0, 0>>
  /\ improving_move_count' = 0
  /\ worsening_move_count' = 0
  /\ pc' = "sweep"
  /\ UNCHANGED <<inst, solver, rule, ready, op_start_times, machine_next_release,
                 job_next_release, times_scheduled, sol, swapped>>
  /\ UNCHANGED search
  /\ UNCHANGED <<op_last_swap, op_push_back_count, total_push_back_count,
                 max_delta, local_best, inner_iteration, accepted_move_costs,
                 lowest, applied>>

(* run_sa lines 77-78: the clock is below config.timeout *)
SweepBegin ==
  /\ pc = "sweep"
  /\ iteration < MaxSaIter
  /\ accepted_move_costs' = <<cmax(sol)>>
  /\ inner_iteration' = 0
  /\ pc' = "inner"
  /\ UNCHANGED <<inst, solver, rule, ready, op_start_times, machine_next_release,
                 job_next_release, times_scheduled, sol, swapped>>
  /\ UNCHANGED search
  /\ UNCHANGED <<op_last_swap, op_push_back_count, total_push_back_count,
                 max_delta, local_best, lowest, applied>>
  /\ UNCHANGED estimate

(* one pass of the for loop with a move to choose, lines 79-126 *)
InnerStep ==
  /\ pc = "inner"
  /\ inner_iteration < equilibrium_iterations(inst)
  /\ LET moves == generate_moves(inst, sol)
     IN /\ moves # <<>>
        /\ \E k \in 1 .. Len(moves) :
             \E should_accept_move \in
                 IF moves[k].cmax <= cmax(sol) THEN {TRUE} ELSE BOOLEAN :
               IF should_accept_move
               THEN LET current == apply_swap(inst, sol, moves[k].swap_move[1],
                                              moves[k].swap_move[2])
                    IN IF current.ok
                       THEN /\ sol' = current
                            /\ swapped' = TRUE
                            /\ accepted_move_costs' =
                                 Append(accepted_move_costs, cmax(current))
                            /\ lowest' = IF cmax(current) < lowest
                                         THEN cmax(current) ELSE lowest
                            /\ inner_iteration' = inner_iteration + 1
                            /\ pc' = "inner"
                       ELSE /\ pc' = "panic"
                            /\ UNCHANGED <<sol, swapped, accepted_move_costs,
                                           lowest, inner_iteration>>
               ELSE /\ inner_iteration' = inner_iteration + 1
                    /\ pc' = "inner"
                    /\ UNCHANGED <<sol, swapped, accepted_move_costs, lowest>>
  /\ rng' = rng + 2
  /\ UNCHANGED <<inst, solver, rule, ready, op_start_times, machine_next_release,
                 job_next_release, times_scheduled, seed, iteration,
                 best_solution, run, first, orientation, op_last_swap,
                 op_push_back_count, total_push_back_count, max_delta,
                 local_best, applied>>
  /\ UNCHANGED estimate

(* the for loop is left, at its end or at line 133 with nothing to choose,
   and the clock is below config.timeout at the next read: lines 137-164,
   and after the return of line 161 find_solution lines 30-39 *)
SweepEnd ==
  /\ pc = "inner"
  /\ \/ inner_iteration = equilibrium_iterations(inst)
     \/ generate_moves(inst, sol) = <<>>
  /\ local_best' = keep_best(sol, local_best)
  /\ applied' = Append(applied, Seen("sweep", sol))
  /\ iteration' = iteration + 1
  /\ IF HasVariation(accepted_move_costs)
     THEN /\ pc' = "sweep"
          /\ UNCHANGED best_solution
     ELSE /\ pc' = "loop"
          /\ best_solution' = keep_best(local_best', best_solution)
  /\ UNCHANGED <<inst, solver, rule, ready, op_start_times, machine_next_release,
                 job_next_release, times_scheduled, sol, swapped, seed, rng, run,
                 first, orientation, op_last_swap, op_push_back_count,
                 total_push_back_count, max_delta, inner_iteration,
                 accepted_move_costs, lowest>>
  /\ UNCHANGED estimate

(* the clock has reached config.timeout inside a sweep (lines 81-83) or at
   its end: the local best is updated (137), the pass returns it at line 161
   or, global_iteration counted (164), at line 173; find_solution keeps the
   better one (30), counts (39) and returns (48) *)
InnerTimeout ==
  /\ pc = "inner"
  /\ local_best' = keep_best(sol, local_best)
  /\ applied' = Append(applied, Seen("sweep", sol))
  /\ best_solution' = keep_best(local_best', best_solution)
  /\ iteration' = iteration + 1
                     + (IF HasVariation(accepted_move_costs) THEN 1 ELSE 0)
  /\ pc' = "returned"
  /\ UNCHANGED <<inst, solver, rule, ready, op_start_times, machine_next_release,
                 job_next_release, times_scheduled, sol, swapped, seed, rng,
                 run, first, orientation, op_last_swap,
                 op_push_back_count, total_push_back_count, max_delta,
                 inner_iteration, accepted_move_costs, lowest>>
  /\ UNCHANGED estimate

(* the clock has reached config.timeout at line 77: the pass returns its best
   (173), find_solution keeps the better one (30), counts (39) and returns
   (48) *)
PassTimeout ==
  /\ pc = "sweep"
  /\ best_solution' = keep_best(local_best, best_solution)
  /\ iteration' = iteration + 1
  /\ pc' = "returned"
  /\ UNCHANGED <<inst, solver, rule, ready, op_start_times, machine_next_release,
                 job_next_release, times_scheduled, sol, swapped, seed, rng,
                 run, first, orientation>>
  /\ UNCHANGED locals

(* the clock has reached config.timeout at line 27: return best (42-48) *)
SaTimeout ==
  /\ pc = "loop"
  /\ solver = "sa"
  /\ pc' = "returned"
  /\ UNCHANGED <<inst, solver, rule, ready, op_start_times, machine_next_release,
                 job_next_release, times_scheduled, sol, swapped>>
  /\ UNCHANGED search
  /\ UNCHANGED locals

(***************************************************************************)
(* verify_solution                                                         *)
(***************************************************************************)
(* solver.rs verify_solution: what the innermost loop body does for one
   (job, op, other_job, other_op); TRUE when it returns an Err. *)
VerifyPairFails(i, start_times, job, op, other_job, other_op) ==
  LET op_id == op_to_id(i, job, op)
      machine == i.machines[op_id]
      start == start_times[op_id]
      end == start + i.durations[op_id]
      other_op_id == op_to_id(i, other_job, other_op)
      other_machine == i.machines[other_op_id]
      other_start == start_times[other_op_id]
      other_end == other_start + i.durations[other_op_id]
  IN /\ other_job # job /\ other_op # op
     /\ \/ (other_job = job /\ other_op + 1 = op /\ other_end > start)
        \/ /\ other_machine = machine
           /\ ~ \/ (start <= other_start /\ end <= other_start)
                \/ (other_start <= start /\ other_end <= start)

(* Ok(()) unless some iteration returns an Err *)
verify_solution(i, start_times) ==
  [ok |-> ~ \E job, other_job \in 0 .. (i.n_jobs - 1) :
              \E op, other_op \in 0 .. (i.n_machines - 1) :
                VerifyPairFails(i, start_times, job, op, other_job, other_op)]

(* verify_solution(inst, solution) on a given Solution *)
Verify ==
  /\ pc = "schedule"
  /\ solver = "verify"
  /\ pc' = IF verify_solution(inst, op_start_times).ok THEN "verified" ELSE "rejected"
  /\ UNCHANGED <<inst, solver, rule, ready, op_start_times, machine_next_release,
                 job_next_release, times_scheduled, sol, swapped>>
  /\ UNCHANGED search
  /\ UNCHANGED locals

(***************************************************************************)
(* IntermediateSolution::new on a given orientation                        *)
(***************************************************************************)
(* IntermediateSolution::new(inst, orientation) called directly *)
Orient ==
  /\ pc = "orient"
  /\ solver = "new"
  /\ LET s == New(inst, orientation)
     IN IF s.ok
        THEN sol' = s /\ pc' = "state"
        ELSE sol' = sol /\ pc' = "panic"
  /\ UNCHANGED <<inst, solver, rule, ready, op_start_times, machine_next_release,
                 job_next_release, times_scheduled, swapped>>
  /\ UNCHANGED search
  /\ UNCHANGED locals

(***************************************************************************)
(* Specifications                                                          *)
(***************************************************************************)
(* no timed search is running and no orientation was handed in *)
(* no tabu search and no simulated annealing is running *)
NoLocals ==
  /\ op_last_swap = <<>>
  /\ op_push_back_count = <<>>
  /\ total_push_back_count = 0
  /\ max_delta = 0
  /\ local_best = NoSolution
  /\ inner_iteration = 0
  /\ accepted_move_costs = <<>>
  /\ lowest = 0
  /\ applied = <<>>
  /\ trial = 0
  /\ solution = NoSolution
  /\ chosen_move = <<>>
  /\ delta_pushed = <<0, 0>>
  /\ improving_move_count = 0
  /\ worsening_move_count = 0

NoSearch ==
  /\ NoLocals
  /\ seed = <<>>
  /\ rng = 0
  /\ iteration = 0
  /\ best_solution = NoSolution
  /\ run = 0
  /\ first = NoSolution
  /\ orientation = <<>>

InitWith(instances, solvers, rules) ==
  /\ inst \in instances
  /\ solver \in solvers
  /\ rule \in rules
  /\ pc = IF rule = "random" THEN "generate" ELSE "dispatch"
  /\ ready = InitialReady(inst)
  /\ op_start_times = [op \in op_ids(inst) |-> 0]
  /\ machine_next_release = [m \in 0 .. (inst.n_machines - 1) |-> 0]
  /\ job_next_release = [j \in 0 .. (inst.n_jobs - 1) |-> 0]
  /\ times_scheduled = [op \in op_ids(inst) |-> 0]
  /\ sol = NoSolution
  /\ swapped = FALSE
  /\ NoSearch

(* Random schedule, state, any sequence of N1 moves. *)
Init == InitWith(InstancesOf(Shapes), {"n1"}, {"random"})

Next == RandomStep \/ Construct \/ Swap

Spec == Init /\ [][Next]_vars

(* The bridge on any schedule, feasible or not, with start times up to
   MaxStart. *)
BridgeShapes == {s \in Shapes : s[1] * s[2] <= MaxBridgeOps}

InitBridge ==
  /\ inst \in InstancesOf(BridgeShapes)
  /\ solver = "bridge"
  /\ rule = "given"
  /\ pc = "schedule"
  /\ ready = <<>>
  /\ op_start_times \in [op_ids(inst) -> 0 .. MaxStart]
  /\ machine_next_release = [m \in 0 .. (inst.n_machines - 1) |-> 0]
  /\ job_next_release = [j \in 0 .. (inst.n_jobs - 1) |-> 0]
  /\ times_scheduled = [op \in op_ids(inst) |-> 1]
  /\ sol = NoSolution
  /\ swapped = FALSE
  /\ NoSearch

NextBridge == Construct

SpecBridge == InitBridge /\ [][NextBridge]_vars

(* The six priority dispatchers. *)
InitPriority == InitWith(InstancesOf(Shapes), {"none"}, Rules)

NextPriority == PriorityStep

SpecPriority == InitPriority /\ [][NextPriority]_vars

(* The hill climber on a random or an SPS schedule. *)
InitClimb == InitWith(InstancesOf(Shapes), {"hill_climber"}, {"random", "sps"})

NextClimb == RandomStep \/ PriorityStep \/ Construct \/ Climb

(* The control points at which a statement of the program is pending.  Every
   action is total under its pc guard (both branches of each IF give a
   successor, and the ready list is not empty at "generate" and "dispatch")
   and changes pc, ready or sol, so ENABLED <<NextClimb>>_vars is exactly
   pc \in Running. *)
Running == {"generate", "dispatch", "schedule", "climb"}

(* Weak fairness of NextClimb, WF_vars(NextClimb), with ENABLED written out
   as above: the single thread that runs improve_solution does not stop
   while a statement is pending. *)
FairClimb == []<>(pc \notin Running) \/ []<><<NextClimb>>_vars

SpecClimb == InitClimb /\ [][NextClimb]_vars /\ FairClimb

(* Two runs of random-restart hill climbing with equal instance and seed. *)
TimedShapes == {s \in Shapes : s[1] * s[2] <= MaxTimedOps}

InitRestart ==
  /\ inst \in InstancesOf(TimedShapes)
  /\ solver = "restart"
  /\ rule = "random"
  /\ pc = "entry"
  /\ ready = <<>>
  /\ op_start_times = [op \in op_ids(inst) |-> 0]
  /\ machine_next_release = [m \in 0 .. (inst.n_machines - 1) |-> 0]
  /\ job_next_release = [j \in 0 .. (inst.n_jobs - 1) |-> 0]
  /\ times_scheduled = [op \in op_ids(inst) |-> 0]
  /\ sol = NoSolution
  /\ swapped = FALSE
  /\ seed \in Seeds
  /\ rng = 0
  /\ iteration = 0
  /\ best_solution = NoSolution
  /\ run = 1
  /\ first = NoSolution
  /\ orientation = <<>>
  /\ NoLocals

NextRestart == RestartBegin \/ RestartIterate \/ RestartTimeout \/ RunAgain

SpecRestart == InitRestart /\ [][NextRestart]_vars

(* verify_solution on any schedule, feasible or not. *)
InitVerify ==
  /\ inst \in InstancesOf(BridgeShapes)
  /\ solver = "verify"
  /\ rule = "given"
  /\ pc = "schedule"
  /\ ready = <<>>
  /\ op_start_times \in [op_ids(inst) -> 0 .. MaxStart]
  /\ machine_next_release = [m \in 0 .. (inst.n_machines - 1) |-> 0]
  /\ job_next_release = [j \in 0 .. (inst.n_jobs - 1) |-> 0]
  /\ times_scheduled = [op \in op_ids(inst) |-> 1]
  /\ sol = NoSolution
  /\ swapped = FALSE
  /\ NoSearch

NextVerify == Verify

SpecVerify == InitVerify /\ [][NextVerify]_vars

(* Two named instances beyond the bounds above: the 3x3 scenario of the
   documentation and a 2x3 instance with unequal positive durations, each
   scheduled at random or by a rule and then moved through N1. *)
ZeroBased(q) == [k \in 0 .. (Len(q) - 1) |-> q[k + 1]]

Scenario3 ==
  [n_jobs |-> 3, n_machines |-> 3,
   machines |-> ZeroBased(<<0, 1, 2,  0, 2, 1,  1, 2, 0>>),
   durations |-> ZeroBased(<<3, 2, 2,  2, 1, 4,  4, 3, 1>>)]

TwoByThree ==
  [n_jobs |-> 2, n_machines |-> 3,
   machines |-> ZeroBased(<<2, 0, 1,  0, 1, 2>>),
   durations |-> ZeroBased(<<3, 1, 2,  2, 2, 2>>)]

InitScenario == InitWith({Scenario3, TwoByThree}, {"n1"}, {"random"} \cup Rules)

NextScenario == RandomStep \/ PriorityStep \/ Construct \/ Swap

SpecScenario == InitScenario /\ [][NextScenario]_vars

(* new on any sequence of at most MaxEdges conflict edges, each a pair of
   different operations of one machine: chains, partial orders, duplicates
   and cycles alike. *)
OrientShapes == {s \in Shapes : s[1] * s[2] <= MaxOrientOps}

ConflictPairs(i) ==
  {e \in op_ids(i) \X op_ids(i) : e[1] # e[2] /\ i.machines[e[1]] = i.machines[e[2]]}

Orientations(i) == UNION {[1 .. n -> ConflictPairs(i)] : n \in 0 .. MaxEdges}

InitOrient ==
  /\ inst \in InstancesOf(OrientShapes)
  /\ solver = "new"
  /\ rule = "given"
  /\ pc = "orient"
  /\ ready = <<>>
  /\ op_start_times = [op \in op_ids(inst) |-> 0]
  /\ machine_next_release = [m \in 0 .. (inst.n_machines - 1) |-> 0]
  /\ job_next_release = [j \in 0 .. (inst.n_jobs - 1) |-> 0]
  /\ times_scheduled = [op \in op_ids(inst) |-> 0]
  /\ sol = NoSolution
  /\ swapped = FALSE
  /\ seed = <<>>
  /\ rng = 0
  /\ iteration = 0
  /\ best_solution = NoSolution
  /\ run = 0
  /\ first = NoSolution
  /\ orientation \in Orientations(inst)
  /\ NoLocals

NextOrient == Orient

SpecOrient == InitOrient /\ [][NextOrient]_vars

(* Machine chains of MaxChainJobs operations, so that a swapped pair can have
   a machine predecessor and a machine successor at once: every instance with
   MaxChainJobs jobs on one machine, and one with two machines. *)
FourByTwo ==
  [n_jobs |-> MaxChainJobs, n_machines |-> 2,
   machines |-> ZeroBased(<<0, 1,  1, 0,  0, 1,  1, 0>>),
   durations |-> ZeroBased(<<1, 2,  0, 1,  2, 1,  1, 0>>)]

InitChain ==
  InitWith(InstancesOf({<<MaxChainJobs, 1>>}) \cup {FourByTwo}, {"n1", "edges"},
           {"random"})

NextChain == RandomStep \/ Construct \/ Swap \/ SwapEdge

SpecChain == InitChain /\ [][NextChain]_vars

(* Tabu search on every instance of up to MaxTimedOps operations and on three
   instances of six operations, for MaxTabuIter iterations. *)
ThreeByTwo ==
  [n_jobs |-> 3, n_machines |-> 2,
   machines |-> ZeroBased(<<0, 1,  1, 0,  1, 0>>),
   durations |-> ZeroBased(<<1, 1,  1, 0,  1, 2>>)]

TwoByThreeWithZeros ==
  [n_jobs |-> 2, n_machines |-> 3,
   machines |-> ZeroBased(<<0, 2, 1,  0, 2, 1>>),
   durations |-> ZeroBased(<<0, 0, 2,  2, 2, 1>>)]

SixOps == {TwoByThree, ThreeByTwo, TwoByThreeWithZeros}

InitTabu ==
  /\ inst \in InstancesOf(TimedShapes) \cup SixOps
  /\ solver = "tabu"
  /\ rule = "random"
  /\ pc = "entry"
  /\ ready = <<>>
  /\ op_start_times = [op \in op_ids(inst) |-> 0]
  /\ machine_next_release = [m \in 0 .. (inst.n_machines - 1) |-> 0]
  /\ job_next_release = [j \in 0 .. (inst.n_jobs - 1) |-> 0]
  /\ times_scheduled = [op \in op_ids(inst) |-> 0]
  /\ sol = NoSolution
  /\ swapped = FALSE
  /\ seed \in Seeds
  /\ rng = 0
  /\ iteration = 0
  /\ best_solution = NoSolution
  /\ run = 1
  /\ first = NoSolution
  /\ orientation = <<>>
  /\ NoLocals

NextTabu == TabuBegin \/ TabuIterate \/ TabuTimeout

SpecTabu == InitTabu /\ [][NextTabu]_vars

(* Both searches that keep a best state over a loop bounded by the clock. *)
InitTimed == InitRestart \/ InitTabu

NextTimed == NextRestart \/ NextTabu

SpecTimed == InitTimed /\ [][NextTimed]_vars

(* Simulated annealing on an instance of two jobs and two machines and on
   the three instances of six operations. *)
TwoByTwo ==
  [n_jobs |-> 2, n_machines |-> 2,
   machines |-> ZeroBased(<<0, 1,  0, 1>>),
   durations |-> ZeroBased(<<1, 2,  2, 1>>)]

InitSA ==
  /\ inst \in {TwoByTwo} \cup SixOps
  /\ solver = "sa"
  /\ rule = "random"
  /\ pc = "entry"
  /\ ready = <<>>
  /\ op_start_times = [op \in op_ids(inst) |-> 0]
  /\ machine_next_release = [m \in 0 .. (inst.n_machines - 1) |-> 0]
  /\ job_next_release = [j \in 0 .. (inst.n_jobs - 1) |-> 0]
  /\ times_scheduled = [op \in op_ids(inst) |-> 0]
  /\ sol = NoSolution
  /\ swapped = FALSE
  /\ seed \in Seeds
  /\ rng = 0
  /\ iteration = 0
  /\ best_solution = NoSolution
  /\ run = 1
  /\ first = NoSolution
  /\ orientation = <<>>
  /\ NoLocals

NextSA ==
  \/ SaBegin \/ SaPass \/ EstimateSample \/ EstimateDelta \/ EstimateReturn
  \/ SweepBegin \/ InnerStep \/ SweepEnd \/ InnerTimeout \/ PassTimeout
  \/ SaTimeout

SpecSA == InitSA /\ [][NextSA]_vars

(***************************************************************************)
(* Properties                                                              *)
(***************************************************************************)
JobOrderRespected(i, start_times) ==
  \A j \in 0 .. (i.n_jobs - 1) :
    \A o \in 0 .. (i.n_machines - 2) :
      start_times[op_to_id(i, j, o)] + i.durations[op_to_id(i, j, o)]
        <= start_times[op_to_id(i, j, o + 1)]

(* [s, s+d) of two positive-duration operations of one machine are disjoint *)
NoMachineOverlap(i, start_times) ==
  \A x, y \in op_ids(i) :
    (x # y /\ i.machines[x] = i.machines[y]
       /\ i.durations[x] > 0 /\ i.durations[y] > 0)
    => \/ start_times[x] + i.durations[x] <= start_times[y]
       \/ start_times[y] + i.durations[y] <= start_times[x]

Feasible(i, start_times) ==
  JobOrderRespected(i, start_times) /\ NoMachineOverlap(i, start_times)

(* Some machine carries two operations of positive duration. *)
Contended(i) ==
  \E x, y \in op_ids(i) :
    x # y /\ i.machines[x] = i.machines[y] /\ i.durations[x] > 0 /\ i.durations[y] > 0

(* C1: every state built from a generated schedule and then changed by any
   sequence of moves of generate_moves yields, through to_solution(), start
   times that respect the job order and in which no two positive-duration
   operations of one machine overlap. *)
C1_StateFeasible ==
  pc = "state" => Feasible(inst, to_solution(sol))

C1_Witness ==
  /\ pc = "state"
  /\ swapped
  /\ Contended(inst)
  /\ Feasible(inst, to_solution(sol))

(* C3: whatever indices the random source picks, generate_random_solution
   gives every operation a start time exactly once and returns a schedule
   that respects the job order and has no machine overlap. *)
C3_RandomFeasible ==
  /\ pc = "generate" => \A op \in op_ids(inst) : times_scheduled[op] <= 1
  /\ pc = "schedule" =>
       /\ \A op \in op_ids(inst) : times_scheduled[op] = 1
       /\ Feasible(inst, op_start_times)

C3_Witness ==
  /\ pc = "schedule"
  /\ rule = "random"
  /\ Contended(inst)
  /\ \A op \in op_ids(inst) : times_scheduled[op] = 1
  /\ Feasible(inst, op_start_times)

(* C2: for each of the six rules priority::find_solution never hands an
   empty candidate list to the rule, gives every operation a start time
   exactly once, and returns a schedule that respects the job order and has
   no machine overlap. *)
C2_PriorityFeasible ==
  /\ pc # "panic"
  /\ \A op \in op_ids(inst) : times_scheduled[op] <= 1
  /\ pc = "schedule" =>
       /\ \A op \in op_ids(inst) : times_scheduled[op] = 1
       /\ Feasible(inst, op_start_times)

C2_Witness ==
  /\ pc = "schedule"
  /\ rule = "mwrm"
  /\ Contended(inst)
  /\ \E op \in op_ids(inst) : inst.durations[op] = 0
  /\ \A op \in op_ids(inst) : times_scheduled[op] = 1
  /\ Feasible(inst, op_start_times)

(***************************************************************************)
(* Reference longest paths, by relaxation over the arcs themselves          *)
(***************************************************************************)
SetMax(S) == CHOOSE x \in S : \A y \in S : y <= x

Arcs(s) ==
  {s.precedence_edges[k] : k \in 1 .. Len(s.precedence_edges)}
    \cup {s.oriented_conflict_edges[k] : k \in 1 .. Len(s.oriented_conflict_edges)}

RECURSIVE RelaxHeads(_, _, _, _)
RelaxHeads(i, arcs, h, rounds) ==
  IF rounds = 0 THEN h
  ELSE RelaxHeads(i, arcs,
         [v \in op_ids(i) |->
            SetMax({0} \cup {h[e[1]] + i.durations[e[1]] : e \in {x \in arcs : x[2] = v}})],
         rounds - 1)

RECURSIVE RelaxTails(_, _, _, _)
RelaxTails(i, arcs, t, rounds) ==
  IF rounds = 0 THEN t
  ELSE RelaxTails(i, arcs,
         [u \in op_ids(i) |->
            i.durations[u] + SetMax({0} \cup {t[e[2]] : e \in {x \in arcs : x[1] = u}})],
         rounds - 1)

LongestPathTo(i, s) ==
  RelaxHeads(i, Arcs(s), [v \in op_ids(i) |-> 0], n_ops(i))

LongestPathFrom(i, s) ==
  RelaxTails(i, Arcs(s), [u \in op_ids(i) |-> i.durations[u]], n_ops(i))

(* C4: in every state, built by construction or by apply_swap, the release
   time of an operation is the length of the longest path from a source to
   it and its tail time is its duration plus the longest path from it to a
   sink, over the precedence and machine arcs. *)
C4_LongestPaths ==
  pc = "state" =>
    /\ sol.release_times = LongestPathTo(inst, sol)
    /\ sol.tail_times = LongestPathFrom(inst, sol)

(* a swapped state in which a machine arc decides some head and some tail *)
C4_Witness ==
  /\ pc = "state"
  /\ swapped
  /\ \E x \in op_ids(inst) :
       /\ sol.pre_job[x] # None /\ sol.pre_machine[x] # None
       /\ End(inst, sol.release_times, sol.pre_job[x])
            < End(inst, sol.release_times, sol.pre_machine[x])
  /\ \E x \in op_ids(inst) :
       /\ sol.succ_job[x] # None /\ sol.succ_machine[x] # None
       /\ sol.tail_times[sol.succ_job[x]] < sol.tail_times[sol.succ_machine[x]]
  /\ sol.release_times = LongestPathTo(inst, sol)
  /\ sol.tail_times = LongestPathFrom(inst, sol)

(* C5: in every state cmax(), the maximum of release + tail, equals
   calculate_cmax of to_solution(), the maximum of release + duration. *)
C5_CmaxConsistent ==
  pc = "state" => cmax(sol) = calculate_cmax(inst, to_solution(sol))

C5_Witness ==
  /\ pc = "state"
  /\ swapped
  /\ cmax(sol) > MaxDur
  /\ cmax(sol) = calculate_cmax(inst, to_solution(sol))

(* No zero-duration operation shares its start time with another operation
   of its machine. *)
NoZeroAmbiguity(i, start_times) ==
  \A x, y \in op_ids(i) :
    (x # y /\ i.machines[x] = i.machines[y] /\ i.durations[x] = 0)
    => start_times[x] # start_times[y]

(* Every operation starts exactly when its job predecessor and the
   operations before it on its machine have ended. *)
SemiActive(i, start_times) ==
  \A x \in op_ids(i) :
    start_times[x] =
      SetMax({0}
        \cup {start_times[y] + i.durations[y] :
                y \in {z \in op_ids(i) :
                         \/ (JobOf(i, z) = JobOf(i, x) /\ z + 1 = x)
                         \/ (z # x /\ i.machines[z] = i.machines[x]
                               /\ start_times[z] < start_times[x])}})

(* C6 as stated: for any feasible schedule S without zero-duration
   ambiguity the state built from get_orientation_from_schedule(S) has
   release_times equal to S.start_times. *)
C6_RoundTripAnyFeasible ==
  (pc \in {"state", "panic"} /\ solver = "bridge"
     /\ Feasible(inst, op_start_times) /\ NoZeroAmbiguity(inst, op_start_times))
  => (pc = "state" /\ sol.release_times = op_start_times)

(* C6 amended: for any feasible schedule S without zero-duration ambiguity
   in which every operation starts exactly at the later of the end of its
   job predecessor and the end of the operations before it on its machine,
   the state built from get_orientation_from_schedule(S) has release_times
   equal to S.start_times. *)
C6_RoundTripSemiActive ==
  (pc \in {"state", "panic"} /\ solver = "bridge"
     /\ Feasible(inst, op_start_times) /\ NoZeroAmbiguity(inst, op_start_times)
     /\ SemiActive(inst, op_start_times))
  => (pc = "state" /\ sol.release_times = op_start_times)

C6_Witness ==
  /\ pc = "state"
  /\ solver = "bridge"
  /\ Contended(inst)
  /\ \E op \in op_ids(inst) : inst.durations[op] = 0
  /\ \E op \in op_ids(inst) : op_start_times[op] > 1
  /\ Feasible(inst, op_start_times)
  /\ NoZeroAmbiguity(inst, op_start_times)
  /\ SemiActive(inst, op_start_times)
  /\ sol.release_times = op_start_times

(* C7: the hill climber never fails and never holds a state whose Cmax
   exceeds calculate_cmax of the initial solution; the swap it is about to
   apply, chosen for an estimate strictly below the current Cmax, yields a
   state whose Cmax does not exceed the current one. *)
C7_ClimbMonotone ==
  /\ solver = "hill_climber" => pc # "panic"
  /\ pc \in {"climb", "done"} =>
       cmax(sol) <= calculate_cmax(inst, op_start_times)
  /\ pc = "climb" =>
       LET improvement == maybe_improvement(inst, sol)
       IN improvement # <<>> =>
            LET next == apply_swap(inst, sol, improvement[1].swap_move[1],
                                   improvement[1].swap_move[2])
            IN next.ok /\ cmax(next) <= cmax(sol)

(* the climber has stopped on a state that is strictly better than its start *)
C7_Witness ==
  /\ pc = "done"
  /\ swapped
  /\ cmax(sol) < calculate_cmax(inst, op_start_times)

LocallyOptimal(i, s) ==
  LET moves == generate_moves(i, s)
  IN \A k \in 1 .. Len(moves) : moves[k].cmax >= cmax(s)

(* C8: the hill climber terminates, on a state none of whose moves has an
   estimate strictly below its Cmax. *)
C8_ClimbTerminates ==
  <>(pc = "done" /\ LocallyOptimal(inst, sol))

C8_Witness ==
  /\ pc = "done"
  /\ swapped
  /\ generate_moves(inst, sol) # <<>>
  /\ LocallyOptimal(inst, sol)

(* C9: for every conflict edge (a, b) of a state whose reversal is acyclic,
   apply_swap(a, b) followed by apply_swap(b, a) gives back the same
   sequence of oriented conflict edges. *)
C9_SwapInvolution ==
  pc = "state" =>
    \A k \in 1 .. Len(sol.oriented_conflict_edges) :
      LET a == sol.oriented_conflict_edges[k][1]
          b == sol.oriented_conflict_edges[k][2]
          there == apply_swap(inst, sol, a, b)
      IN there.ok =>
           LET back == apply_swap(inst, there, b, a)
           IN /\ back.ok
              /\ back.oriented_conflict_edges = sol.oriented_conflict_edges

(* an edge in the middle of a machine chain (three operations) is reversible *)
C9_Witness ==
  /\ pc = "state"
  /\ \E k \in 1 .. Len(sol.oriented_conflict_edges) :
       LET a == sol.oriented_conflict_edges[k][1]
           b == sol.oriented_conflict_edges[k][2]
           there == apply_swap(inst, sol, a, b)
       IN /\ sol.pre_machine[a] # None
          /\ there.ok
          /\ there.oriented_conflict_edges # sol.oriented_conflict_edges
          /\ apply_swap(inst, there, b, a).oriented_conflict_edges
               = sol.oriented_conflict_edges

(* C10 as stated: for every move (a, b) of generate_moves in a reachable
   state, apply_swap(a, b) returns a state, cmax_after_swap(a, b) is at most
   its Cmax, and equals it when a or b is critical in it. *)
C10_EstimateBound ==
  pc = "state" =>
    LET moves == generate_moves(inst, sol)
    IN \A k \in 1 .. Len(moves) :
         LET a == moves[k].swap_move[1]
             b == moves[k].swap_move[2]
             next == apply_swap(inst, sol, a, b)
         IN /\ next.ok
            /\ moves[k].cmax <= cmax(next)
            /\ (is_critical(next, a) \/ is_critical(next, b))
                 => moves[k].cmax = cmax(next)


(* C11 as stated: two runs of a timed search on the same instance with the
   same seed and configuration return identical solutions. *)
C11_SameSeedSameSolution ==
  (pc = "returned" /\ run = 2) => to_solution(best_solution) = first.solution

(* two runs that took the same number of loop iterations do return the same *)
C11_SameIterationsSameSolution ==
  (pc = "returned" /\ run = 2 /\ iteration = first.iterations)
  => to_solution(best_solution) = first.solution

(* C12 as stated: verify_solution returns an error for every solution in
   which an operation starts before its job predecessor ends and for every
   solution in which two positive-duration operations of one machine
   overlap, and returns Ok only when neither violation exists. *)
C12_VerifyDetectsViolations ==
  /\ pc = "verified" => Feasible(inst, op_start_times)
  /\ pc = "rejected" => ~Feasible(inst, op_start_times)

(* C13 as stated: on the 3x3 scenario find_solution_spt returns a schedule
   whose makespan is 11. *)
C13_SptMakespan11 ==
  (inst = Scenario3 /\ rule = "spt" /\ pc = "schedule")
  => calculate_cmax(inst, op_start_times) = 11

(* C13 amended: on the 3x3 scenario find_solution_spt returns the schedule
   with start times 2 7 9 / 0 2 3 / 9 13 16, whose makespan is 17;
   find_solution_sps returns a schedule of makespan 11. *)
C13_SptMakespan17 ==
  (inst = Scenario3 /\ pc = "schedule")
  => /\ rule = "spt" =>
          /\ op_start_times = ZeroBased(<<2, 7, 9,  0, 2, 3,  9, 13, 16>>)
          /\ calculate_cmax(inst, op_start_times) = 17
     /\ rule = "sps" => calculate_cmax(inst, op_start_times) = 11

C13_Witness ==
  /\ inst = Scenario3
  /\ rule = "spt"
  /\ pc = "schedule"
  /\ \A op \in op_ids(inst) : times_scheduled[op] = 1
  /\ calculate_cmax(inst, op_start_times) = 17

(* Two different operations of one machine that have positive durations and
   equal start times. *)
PositiveClash(i, start_times) ==
  \E a, b \in op_ids(i) :
    /\ a # b
    /\ i.machines[a] = i.machines[b]
    /\ start_times[a] = start_times[b]
    /\ i.durations[a] > 0
    /\ i.durations[b] > 0

(* C14: get_orientation_from_schedule fails on every schedule in which two
   positive-duration operations of one machine start at the same time, and
   does not fail when every pair of operations of one machine with equal
   start times includes a zero-duration operation. *)
C14_OverlapSignalled ==
  (solver = "bridge")
  => LET o == get_orientation_from_schedule(inst, op_start_times)
     IN /\ PositiveClash(inst, op_start_times) => ~o.ok
        /\ ~PositiveClash(inst, op_start_times) => o.ok
        /\ (PositiveClash(inst, op_start_times) /\ pc # "schedule") => pc = "panic"

(* Three operations on one machine; the first and the last clash, the one
   between them in id order has zero duration and the same start time. *)
C14_Witness ==
  /\ solver = "bridge"
  /\ pc = "panic"
  /\ inst.n_jobs = 3
  /\ inst.n_machines = 1
  /\ inst.durations = ZeroBased(<<1, 0, 1>>)
  /\ op_start_times = ZeroBased(<<2, 2, 2>>)
  /\ ~get_orientation_from_schedule(inst, op_start_times).ok

(* The arcs of the disjunctive graph of an orientation. *)
ArcsOf(i, edges) ==
  {get_precedence_edges(i)[k] : k \in 1 .. Len(get_precedence_edges(i))}
    \cup {edges[k] : k \in 1 .. Len(edges)}

(* The pairs joined by a path of at most 2^rounds arcs. *)
RECURSIVE Paths(_, _, _)
Paths(i, R, rounds) ==
  IF rounds = 0 THEN R
  ELSE Paths(i,
             R \cup {e \in op_ids(i) \X op_ids(i) :
                       \E v \in op_ids(i) : <<e[1], v>> \in R /\ <<v, e[2]>> \in R},
             rounds - 1)

Cyclic(i, edges) ==
  \E v \in op_ids(i) : <<v, v>> \in Paths(i, ArcsOf(i, edges), n_ops(i))

HeadOfTwo(edges) ==
  \E k, l \in 1 .. Len(edges) : k # l /\ edges[k][1] = edges[l][1]

TailOfTwo(edges) ==
  \E k, l \in 1 .. Len(edges) : k # l /\ edges[k][2] = edges[l][2]

(* C15: IntermediateSolution::new fails for every orientation that is cyclic
   together with the job precedence arcs and for every orientation in which
   an operation is the head of two conflict edges or the tail of two; a
   state that is returned has every head and every tail labelled, with the
   longest-path values. *)
C15_NewFailsFast ==
  (solver = "new" /\ pc # "orient")
  => /\ (Cyclic(inst, orientation) \/ HeadOfTwo(orientation) \/ TailOfTwo(orientation))
          => pc = "panic"
     /\ pc = "state" =>
          LET r == Relations(sol)
          IN /\ \A op \in op_ids(inst) :
                  /\ ReleaseLoop(inst, r, ReleaseSeed(inst, r)).labelled[op]
                  /\ TailLoop(inst, r, TailSeed(inst, r)).labelled[op]
                  /\ sol.release_times[op] # None
             /\ sol.release_times = LongestPathTo(inst, sol)
             /\ sol.tail_times = LongestPathFrom(inst, sol)

(* A cycle through job arcs and conflict edges, no operation twice a head or
   twice a tail. *)
C15_Witness ==
  /\ solver = "new"
  /\ pc = "panic"
  /\ inst.n_machines = 2
  /\ Len(orientation) = 2
  /\ Cyclic(inst, orientation)
  /\ ~HeadOfTwo(orientation)
  /\ ~TailOfTwo(orientation)

(* C16: from the state built from any generated schedule, after any sequence
   of moves of generate_moves, every move of generate_moves can be applied:
   apply_swap never finds a cyclic orientation while recomputing the heads. *)
C16_MovesNeverCyclic ==
  /\ (solver = "n1" => pc # "panic")
  /\ (solver = "n1" /\ pc = "state") =>
       \A k \in 1 .. Len(generate_moves(inst, sol)) :
         apply_swap(inst, sol,
                    generate_moves(inst, sol)[k].swap_move[1],
                    generate_moves(inst, sol)[k].swap_move[2]).ok

(* C17: every move (a, b) of generate_moves is an oriented conflict edge on a
   longest path: a and b are critical and a ends exactly when b is
   released. *)
C17_MovesOnLongestPath ==
  (solver = "n1" /\ pc = "state")
  => \A k \in 1 .. Len(generate_moves(inst, sol)) :
       LET a == generate_moves(inst, sol)[k].swap_move[1]
           b == generate_moves(inst, sol)[k].swap_move[2]
       IN /\ Contains(sol.oriented_conflict_edges, <<a, b>>)
          /\ is_critical(sol, a)
          /\ is_critical(sol, b)
          /\ sol.release_times[a] + inst.durations[a] = sol.release_times[b]

(* C18 as stated: apply_swap(a, b) on a conflict edge (a, b) reverses the
   edge, makes the old machine successor of b the machine predecessor of a
   and the old machine predecessor of a the machine successor of b. *)
C18_SwapRelinksAsStated ==
  pc = "state" =>
    \A k \in 1 .. Len(sol.oriented_conflict_edges) :
      LET a == sol.oriented_conflict_edges[k][1]
          b == sol.oriented_conflict_edges[k][2]
          there == apply_swap(inst, sol, a, b)
      IN there.ok =>
           /\ there.oriented_conflict_edges[k] = <<b, a>>
           /\ ~Contains(there.oriented_conflict_edges, <<a, b>>)
           /\ there.pre_machine[a] = sol.succ_machine[b]
           /\ there.succ_machine[b] = sol.pre_machine[a]

(* C18 amended: apply_swap(a, b) on a conflict edge (a, b) reverses the edge
   in place; b becomes the machine predecessor of a and a the machine
   successor of b; the old machine successor of b becomes the machine
   successor of a and the old machine predecessor of a becomes the machine
   predecessor of b. *)
C18_SwapRelinks ==
  pc = "state" =>
    \A k \in 1 .. Len(sol.oriented_conflict_edges) :
      LET a == sol.oriented_conflict_edges[k][1]
          b == sol.oriented_conflict_edges[k][2]
          there == apply_swap(inst, sol, a, b)
      IN there.ok =>
           /\ there.oriented_conflict_edges[k] = <<b, a>>
           /\ ~Contains(there.oriented_conflict_edges, <<a, b>>)
           /\ there.pre_machine[a] = b
           /\ there.succ_machine[b] = a
           /\ there.succ_machine[a] = sol.succ_machine[b]
           /\ there.pre_machine[b] = sol.pre_machine[a]

(* A swap in the middle of a chain: a has a machine predecessor and b a
   machine successor. *)
C18_Witness ==
  /\ pc = "state"
  /\ \E k \in 1 .. Len(sol.oriented_conflict_edges) :
       LET a == sol.oriented_conflict_edges[k][1]
           b == sol.oriented_conflict_edges[k][2]
           there == apply_swap(inst, sol, a, b)
       IN /\ sol.pre_machine[a] # None
          /\ sol.succ_machine[b] # None
          /\ there.ok
          /\ there.pre_machine[a] = b
          /\ there.succ_machine[a] = sol.succ_machine[b]
          /\ there.pre_machine[b] = sol.pre_machine[a]

(* The operations of machine m in the order of the state's machine chain:
   from the operation without machine predecessor along succ_machine; <<>>
   when there is not exactly one such operation. *)
RECURSIVE ChainFrom(_, _, _)
ChainFrom(succ, x, fuel) ==
  IF x = None \/ fuel = 0 THEN <<>>
  ELSE <<x>> \o ChainFrom(succ, succ[x], fuel - 1)

MachineOrder(i, s, m) ==
  LET starts == {op \in op_ids(i) : i.machines[op] = m /\ s.pre_machine[op] = None}
  IN IF Cardinality(starts) # 1 THEN <<>>
     ELSE ChainFrom(s.succ_machine, CHOOSE x \in starts : TRUE, n_ops(i) + 1)

(* The edges of machine m are the consecutive pairs of one simple path
   through all of its operations, and the index arrays are the ones
   get_pre_succ_relations derives from the edges. *)
ChainsConsistent(i, s) ==
  /\ get_pre_succ_relations(i, s.oriented_conflict_edges)
       = [pre |-> s.pre_machine, succ |-> s.succ_machine, ok |-> TRUE]
  /\ Len(s.oriented_conflict_edges) = i.n_machines * (i.n_jobs - 1)
  /\ \A m \in 0 .. (i.n_machines - 1) :
       LET q == MachineOrder(i, s, m)
       IN /\ Len(q) = i.n_jobs
          /\ {q[k] : k \in 1 .. Len(q)} = {op \in op_ids(i) : i.machines[op] = m}
          /\ \A k \in 1 .. (Len(q) - 1) :
               Contains(s.oriented_conflict_edges, <<q[k], q[k + 1]>>)

Exchange(q, a, b) ==
  [k \in 1 .. Len(q) |-> IF q[k] = a THEN b ELSE IF q[k] = b THEN a ELSE q[k]]

(* C19: after any sequence of apply_swap calls on conflict edges the
   pre_machine/succ_machine arrays are the ones get_pre_succ_relations
   derives from the new oriented_conflict_edges and every machine's edges
   form one simple path through all its operations; one more swap of (a, b)
   exchanges a and b in the order of their machine and leaves the order of
   every other machine, pre_job, succ_job and the precedence edges as they
   were. *)
C19_ChainsStayConsistent ==
  pc = "state" =>
    /\ ChainsConsistent(inst, sol)
    /\ \A k \in 1 .. Len(sol.oriented_conflict_edges) :
         LET a == sol.oriented_conflict_edges[k][1]
             b == sol.oriented_conflict_edges[k][2]
             there == apply_swap(inst, sol, a, b)
         IN there.ok =>
              /\ ChainsConsistent(inst, there)
              /\ \A m \in 0 .. (inst.n_machines - 1) :
                   MachineOrder(inst, there, m)
                     = IF m = inst.machines[a]
                       THEN Exchange(MachineOrder(inst, sol, m), a, b)
                       ELSE MachineOrder(inst, sol, m)
              /\ there.pre_job = sol.pre_job
              /\ there.succ_job = sol.succ_job
              /\ there.precedence_edges = sol.precedence_edges

(* After a swap of an edge that generate_moves need not return, on two
   machines, with a further swap possible in the middle of a chain. *)
C19_Witness ==
  /\ pc = "state"
  /\ solver = "edges"
  /\ swapped
  /\ inst.n_machines = 2
  /\ ChainsConsistent(inst, sol)
  /\ \E k \in 1 .. Len(sol.oriented_conflict_edges) :
       LET a == sol.oriented_conflict_edges[k][1]
           b == sol.oriented_conflict_edges[k][2]
       IN /\ sol.pre_machine[a] # None
          /\ sol.succ_machine[b] # None
          /\ apply_swap(inst, sol, a, b).ok

(* Every operation is popped exactly once, and never before the operations
   `before` names for it are labelled. *)
EachOnceInOrder(i, dequeues, before1, before2) ==
  /\ Len(dequeues) = n_ops(i)
  /\ {dequeues[k].node : k \in 1 .. Len(dequeues)} = op_ids(i)
  /\ \A k \in 1 .. Len(dequeues) :
       LET node == dequeues[k].node
       IN /\ ~dequeues[k].labelled[node]
          /\ before1[node] # None => dequeues[k].labelled[before1[node]]
          /\ before2[node] # None => dequeues[k].labelled[before2[node]]

(* C20: on an acyclic orientation the head propagation pops and labels every
   operation exactly once, its job predecessor and its machine predecessor
   (where present) being labelled by then; the tail propagation does the same
   with the successors. *)
C20_TopologicalLabelling ==
  pc = "state" =>
    LET r == Relations(sol)
    IN /\ EachOnceInOrder(inst, ReleaseDequeues(inst, r, ReleaseSeed(inst, r)),
                          r.pre_job, r.pre_machine)
       /\ EachOnceInOrder(inst, TailDequeues(inst, r, TailSeed(inst, r)),
                          r.succ_job, r.succ_machine)

(* A state after a swap in which some operation has a job predecessor and a
   machine predecessor, and is not popped right after the first of them. *)
C20_Witness ==
  /\ pc = "state"
  /\ swapped
  /\ inst.n_machines = 2
  /\ LET r == Relations(sol)
         q == ReleaseDequeues(inst, r, ReleaseSeed(inst, r))
     IN /\ Len(q) = n_ops(inst)
        /\ \E k \in 3 .. Len(q) :
             /\ r.pre_job[q[k].node] # None
             /\ r.pre_machine[q[k].node] # None
             /\ q[k - 1].node \notin {r.pre_job[q[k].node], r.pre_machine[q[k].node]}
             /\ q[k].labelled[r.pre_job[q[k].node]]
             /\ q[k].labelled[r.pre_machine[q[k].node]]

(* No re-initialisation between entries j and k of the history. *)
NoResetBetween(j, k) ==
  \A l \in (j + 1) .. (k - 1) : applied[l].kind # "reset"

(* C21: tabu search applies a swap (a, b) that is tabu (iteration <
   last_swap[a] + tabu_duration) only if its estimate is strictly below the
   global best Cmax of that iteration; so for tabu_duration - 1 iterations
   after a swap (x, b), no swap (b, y) is applied unless it has such an
   estimate or a re-initialisation lies in between.  Entry k of the history
   is iteration k - 1. *)
C21_TabuOnlyByAspiration ==
  solver = "tabu" =>
    \A k \in 1 .. Len(applied) :
      applied[k].kind = "swap" =>
        /\ applied[k].tabu => applied[k].cmax < applied[k].best
        /\ \A j \in 1 .. (k - 1) :
             ( /\ applied[j].kind = "swap"
               /\ applied[j].b = applied[k].a
               /\ k - j < tabu_duration(inst)
               /\ NoResetBetween(j, k) )
             => applied[k].cmax < applied[k].best

(* A tabu swap applied through the aspiration criterion. *)
C21_Witness ==
  /\ solver = "tabu"
  /\ \E k \in 2 .. Len(applied) :
       /\ applied[k].kind = "swap"
       /\ applied[k].tabu
       /\ applied[k].cmax < applied[k].best
       /\ \E j \in 1 .. (k - 1) :
            /\ applied[j].kind = "swap"
            /\ applied[j].b = applied[k].a
            /\ k - j < tabu_duration(inst)
            /\ NoResetBetween(j, k)

(* cmax + penalty_factor * push_back[b] / total_push_back of c below that of
   d, in exact arithmetic, the penalty being zero while every counter is
   zero *)
PenalisedLess(i, c, d) ==
  LessThanRootTimes(
    2 * (IF total_push_back_count = 0 THEN 1 ELSE total_push_back_count)
      * (c.cmax - d.cmax),
    i.n_jobs * i.n_machines,
    max_delta * (op_push_back_count[d.swap_move[2]]
                   - op_push_back_count[c.swap_move[2]]))

(* the move the next iteration applies is, among the candidates passing the
   tabu test, the earliest one of smallest penalised estimate *)
SmallestEvaluationChosen ==
  LET moves == generate_moves(inst, sol)
      passing == {k \in 1 .. Len(moves) : PassesTabuTest(inst, moves[k])}
      chosen == TabuFind(inst, moves, 1, <<>>)
  IN passing # {} =>
       /\ chosen # <<>>
       /\ \E k \in passing :
            /\ moves[k] = chosen[1]
            /\ \A j \in passing :
                 /\ ~PenalisedLess(inst, moves[j], moves[k])
                 /\ j < k => PenalisedLess(inst, moves[k], moves[j])

(* C22: in every tabu iteration, the first one after initialisation or
   re-initialisation included (all push-back counters zero), the move applied
   is among the candidates passing the tabu/aspiration test one of smallest
   cmax + penalty_factor * push_back[b] / total_push_back, with zero penalty
   when all counters are zero, and the earliest in enumeration order among
   equals. *)
C22_SmallestEvaluationApplied ==
  (solver = "tabu" /\ pc = "loop" /\ iteration < MaxTabuIter) =>
    SmallestEvaluationChosen

(* the same from the second iteration after an initialisation on, where the
   counters are not all zero *)
C22_SmallestOncePushedBack ==
  (solver = "tabu" /\ pc = "loop" /\ iteration < MaxTabuIter
     /\ total_push_back_count > 0) =>
    SmallestEvaluationChosen

(* C23: in random-restart hill climbing and in tabu search, after every loop
   iteration the makespan of the best state equals the minimum makespan over
   the initial state and every state that has been current so far (lowest), and
   the state returned is that best state. *)
C23_BestIsLowestSoFar ==
  (solver \in {"restart", "tabu"} /\ pc \in {"loop", "returned"}) =>
    /\ best_solution.ok
    /\ cmax(best_solution) = lowest
    /\ cmax(best_solution) <= cmax(sol)

(* C23: the makespan of the best state never increases from one iteration to
   the next, nor on return *)
C23_BestNeverIncreases ==
  [][(pc = "loop" /\ pc' \in {"loop", "returned"}) =>
       cmax(best_solution') <= cmax(best_solution)]_vars

(* tabu search has returned a best state that an earlier iteration reached,
   the current state being worse by then *)
C23_Witness ==
  /\ solver = "tabu"
  /\ pc = "returned"
  /\ iteration >= 2
  /\ cmax(best_solution) = lowest
  /\ cmax(best_solution) < cmax(sol)
  /\ \E k \in 1 .. Len(applied) : applied[k].best > lowest

(* the same in random-restart hill climbing: a restart produced a worse state
   than the best one, which is returned *)
C23_WitnessRestart ==
  /\ solver = "restart"
  /\ pc = "returned"
  /\ iteration >= 2
  /\ cmax(best_solution) = lowest
  /\ cmax(best_solution) < cmax(sol)

(* C24 as stated: the state returned by simulated annealing has a makespan no
   larger than that of any state that was the current state at any point of
   any pass, the states accepted in the middle of a sweep and replaced by a
   worse one before the sweep ended included. *)
C24_ReturnedBelowEveryCurrent ==
  (solver = "sa" /\ pc = "returned") => cmax(best_solution) <= lowest

(* C24: the state returned by simulated annealing has a makespan no larger
   than that of the first state generated, of the state a pass started from
   and of the state that was current when a sweep ended. *)
C24_ReturnedBelowSweepEnds ==
  (solver = "sa" /\ pc = "returned") =>
    /\ best_solution.ok
    /\ \A k \in 1 .. Len(applied) : cmax(best_solution) <= applied[k].cmax

(* simulated annealing has returned after a sweep that ended on a state
   better than the one its pass started from, and after a state better still
   was current in the middle of a sweep *)
C24_Witness ==
  /\ solver = "sa"
  /\ pc = "returned"
  /\ lowest < cmax(best_solution)
  /\ \E j \in 1 .. Len(applied) : \E k \in 1 .. Len(applied) :
       /\ j < k
       /\ applied[j].kind = "pass"
       /\ applied[k].kind = "sweep"
       /\ applied[k].cmax < applied[j].cmax
       /\ applied[k].cmax = cmax(best_solution)

(* C25 as stated: in the estimate of the initial temperature a sampled move
   whose estimated makespan is at most the makespan of its random state yields
   a delta of at most zero and is counted among the improving moves; the
   delta, computed on 32-bit unsigned values, never wraps to a large positive
   number and never aborts the computation. *)
C25_ImprovingSampleCounted ==
  [][(pc = "delta" /\ chosen_move[1].cmax <= cmax(solution)) =>
       /\ pc' # "panic"
       /\ IsImproving(delta_pushed')
       /\ improving_move_count' = improving_move_count + 1
       /\ worsening_move_count' = worsening_move_count]_vars

(* C25 for the samples that do not lower the makespan: an estimate equal to
   the makespan is counted as improving, a larger one as worsening, and the
   delta is the difference *)
C25_OtherSamplesCounted ==
  [][(pc = "delta" /\ chosen_move[1].cmax >= cmax(solution)) =>
       /\ pc' # "panic"
       /\ delta_pushed' = <<0, chosen_move[1].cmax - cmax(solution)>>
       /\ IF chosen_move[1].cmax = cmax(solution)
          THEN /\ improving_move_count' = improving_move_count + 1
               /\ worsening_move_count' = worsening_move_count
          ELSE /\ improving_move_count' = improving_move_count
               /\ worsening_move_count' = worsening_move_count + 1]_vars

(* a sample below the makespan of its state has been pushed as a delta just
   under 2^32 and counted as worsening *)
C25_Wrapped ==
  /\ pc = "estimate"
  /\ chosen_move # <<>>
  /\ chosen_move[1].cmax < cmax(solution)
  /\ delta_pushed[1] = 65535
  /\ worsening_move_count > 0

=============================================================================
